---------------------------- MODULE Spec2Model ----------------------------
(***************************************************************************)
(* A model of the financial_rag repository: the section-aware chunker      *)
(* (utils.py), the ingestion run (ingest.py), the temporal-aware retriever *)
(* and the iterative question-answering orchestrator (query.py and the     *)
(* chat handler of streamlit_app.py).                                      *)
(*                                                                         *)
(* Text is a sequence of one-character strings.  Each subsystem has its    *)
(* own specification (SpecChunk, SpecIngest, SpecRetrieve, SpecQA); the    *)
(* variables of the other subsystems stay at their idle values.            *)
(***************************************************************************)
EXTENDS Integers, Sequences, FiniteSets, TLC

VARIABLES
    \* ---- chunker (utils.py) ----
    cpc,          \* "input" before the call, "done" after chunk_by_sections returned
    ctext,        \* the text argument
    csize,        \* the chunk_size argument
    coverlap,     \* the overlap argument
    cresult,      \* the list chunk_by_sections returned
    \* ---- the while loop of chunk_text (utils.py) ----
    wpc,          \* "loop" while chunk_text runs, "done" after it returned
    wtext,        \* the text chunk_text was called with
    wstart,       \* start
    wchunks,      \* chunks
    \* ---- retriever (query.py, retrieve) ----
    rpc,          \* "call", "walk" (the for loop), "ret" (after the loop), "done"
    rmeta,        \* meta.json: decimal-string key -> chunk record
    rdist,        \* distance of each index row to the query's embedding
    rk,           \* the k argument
    rtarget,      \* the target_year argument (None when absent)
    rI,           \* I[0]: the neighbour ids index.search returned
    rpos,         \* position of the for loop in I[0] (1-based)
    results,      \* the results list of the loop
    rret,         \* the list retrieve returned
    \* ---- ingestion run (ingest.py, __main__) ----
    ipc,          \* "scan", "docs" (the for loop), "embed", "build",
                  \* "done" (saved) or "exit1"
    pdf_files,    \* the documents found in data/
    idoc,         \* position of the for loop in pdf_files (1-based)
    skipped,      \* the documents whose extraction raised
    all_chunks,   \* all_chunks
    metadata,     \* metadata (list of dicts)
    id_counter,   \* id_counter
    embed_i,      \* i of the batch loop of embed_texts
    all_embeddings, \* all_embeddings of embed_texts
    failed_batches, \* the start positions of the batches whose call raised
    index_file,   \* the vectors written to faiss_index.bin, in row order
    meta_file,    \* the mapping written to meta.json
    \* ---- question answering (query.py __main__ / generate_answer,
    \*      streamlit_app.py chat handler) ----
    driver,       \* "cli" (query.py) or "ui" (streamlit_app.py)
    stage,        \* "IDLE", "RETRIEVE" (cli only), "MAIN_ATTEMPT", "GAP_ANALYSIS",
                  \* "FOLLOW_UP", "SYNTHESIS", "DONE" or "FAILED"
    question,     \* the question of the current request
    target_year,  \* extract_year_from_query(question)
    retrieved,    \* cli: what retrieve returned before generate_answer
    main_result,  \* main_result
    missing_info, \* analysis['missing_info']
    follow_up_questions, \* analysis['follow_up_questions']
    fu_idx,       \* position of the follow-up loop (1-based)
    follow_up_results,   \* follow_up_results
    follow_up_marks,     \* what the driver showed for each follow-up result
    synth_context,\* the per-result context given to the synthesis call
    final_answer, \* what the request shows as its answer
    main_calls,   \* fallback-answerer calls on the original question, this request
    gap_calls,    \* gap-analysis calls, this request
    synth_calls,  \* synthesis calls, this request
    \* -- one call of answer_sub_question_with_fallback --
    fpc,          \* "none", "first", "altgen", "alts" or "ret"
    sub_question, \* its sub_question argument
    f_year,       \* its target_year argument
    f_result,     \* result: the first attempt's result
    alternatives, \* alternatives
    alt_idx,      \* position of the for loop over alternatives (1-based)
    f_attempts,   \* the results of the answer_sub_question calls made, in order
    f_years,      \* the target_year given to each of those calls
    altgen_calls, \* generate_alternative_questions calls made
    f_ret,        \* the value the call returns
    \* ---- one call of answer_sub_question (query.py) ----
    apc,          \* "call", "generate", "ret" or "raised"
    a_hits,       \* hits: what retrieve returned
    a_answer,     \* answer: the text of the generation service
    a_result,     \* the dict the call returns
    a_gen_calls,  \* calls made to the generation service
    \* ---- parsing of a structured response (query.py) ----
    ppc,          \* "input" before parsing, "done" after
    p_response,   \* response_text: resp.choices[0].message.content
    p_analysis,   \* what analyze_missing_information returns for it
    p_items,      \* what generate_alternative_questions / decompose_question return
    \* ---- a query session and the index files (query.py __main__,
    \*      streamlit_app.py, retrieve) ----
    index_exists, \* os.path.exists("faiss_index.bin")
    meta_exists,  \* os.path.exists("meta.json")
    spc,          \* "start", "prompt", "load", "embed", "search", "generate",
                  \* "answered", "failed" (error reported) or "exit"
    questions_read, \* questions read so far in the session
    embed_calls,  \* embedding calls made for the current question
    search_calls, \* index searches made for the current question
    gen_calls,    \* generation calls made for the current question
    s_error,      \* the error reported last, "none" when there is none
    \* ---- year detection (query.py extract_year_from_query, ingest.py
    \*      extract_year_from_filename) ----
    ypc,          \* "input" before the calls, "done" after them
    y_text,       \* the question or file name
    y_query,      \* what extract_year_from_query returns for it
    y_filename,   \* what extract_year_from_filename returns for it
    \* ---- two calls of generate_answer side by side (query.py) ----
    g_runs        \* run number -> the locals of that call of generate_answer

windowVars == <<wpc, wtext, wstart, wchunks>>

chunkVars == <<cpc, ctext, csize, coverlap, cresult, windowVars>>

retrVars == <<rpc, rmeta, rdist, rk, rtarget, rI, rpos, results, rret>>

ingestVars == <<ipc, pdf_files, idoc, skipped, all_chunks, metadata, id_counter,
                embed_i, all_embeddings, failed_batches, index_file, meta_file>>

orchVars == <<driver, stage, question, target_year, retrieved, main_result,
              missing_info, follow_up_questions, fu_idx, follow_up_results, follow_up_marks,
              synth_context, final_answer, main_calls, gap_calls, synth_calls>>

fallbackVars == <<fpc, sub_question, f_year, f_result, alternatives, alt_idx,
                  f_attempts, f_years, altgen_calls, f_ret>>

answerVars == <<apc, a_hits, a_answer, a_result, a_gen_calls>>

parseVars == <<ppc, p_response, p_analysis, p_items>>

sessionVars == <<index_exists, meta_exists, spc, questions_read, embed_calls,
                 search_calls, gen_calls, s_error>>

yearVars == <<ypc, y_text, y_query, y_filename>>

pairVars == <<g_runs>>

qaVars == <<orchVars, fallbackVars, answerVars, parseVars, sessionVars, yearVars,
            pairVars>>

vars == <<chunkVars, retrVars, ingestVars, qaVars>>

(***************************************************************************)
(* Bounds of the model.                                                    *)
(***************************************************************************)
MaxTextLen == 6
MaxChunkSize == 3
NumRows == 3
NumDocs == 3
MaxDocChunks == 2
MaxAlternatives == 4
MaxFollowUps == 2

(***************************************************************************)
(* The values of a subsystem's variables while it is not the one running.  *)
(***************************************************************************)
\* Python's None for an absent target year.
None == 0 - 1

WindowIdle ==
    /\ wpc = "idle"
    /\ wtext = <<>>
    /\ wstart = 0
    /\ wchunks = <<>>

ChunkIdle ==
    /\ cpc = "idle"
    /\ ctext = <<>>
    /\ csize = 1
    /\ coverlap = 0
    /\ cresult = <<>>
    /\ WindowIdle

RetrIdle ==
    /\ rpc = "idle"
    /\ rmeta = << >>
    /\ rdist = << >>
    /\ rk = 0
    /\ rtarget = None
    /\ rI = << >>
    /\ rpos = 0
    /\ results = << >>
    /\ rret = << >>

IngestIdle ==
    /\ ipc = "idle"
    /\ pdf_files = << >>
    /\ idoc = 0
    /\ skipped = {}
    /\ all_chunks = << >>
    /\ metadata = << >>
    /\ id_counter = 0
    /\ embed_i = 0
    /\ all_embeddings = << >>
    /\ failed_batches = {}
    /\ index_file = << >>
    /\ meta_file = << >>

\* An AnswerResult with nothing in it.
NoResult == [question |-> << >>, answer |-> << >>, chunks |-> << >>, sources |-> << >>]

FallbackIdle ==
    /\ fpc = "none"
    /\ sub_question = << >>
    /\ f_year = None
    /\ f_result = NoResult
    /\ alternatives = << >>
    /\ alt_idx = 0
    /\ f_attempts = << >>
    /\ f_years = << >>
    /\ altgen_calls = 0
    /\ f_ret = NoResult

RequestIdle ==
    /\ question = << >>
    /\ target_year = None
    /\ retrieved = << >>
    /\ main_result = NoResult
    /\ missing_info = << >>
    /\ follow_up_questions = << >>
    /\ fu_idx = 0
    /\ follow_up_results = << >>
    /\ follow_up_marks = << >>
    /\ synth_context = << >>
    /\ final_answer = << >>
    /\ main_calls = 0
    /\ gap_calls = 0
    /\ synth_calls = 0

AnswerIdle ==
    /\ apc = "idle"
    /\ a_hits = << >>
    /\ a_answer = << >>
    /\ a_result = NoResult
    /\ a_gen_calls = 0

ParseIdle ==
    /\ ppc = "idle"
    /\ p_response = << >>
    /\ p_analysis = [missing_info |-> << >>, follow_up_questions |-> << >>]
    /\ p_items = << >>

SessionIdle ==
    /\ index_exists = TRUE
    /\ meta_exists = TRUE
    /\ spc = "idle"
    /\ questions_read = 0
    /\ embed_calls = 0
    /\ search_calls = 0
    /\ gen_calls = 0
    /\ s_error = "none"

YearIdle ==
    /\ ypc = "idle"
    /\ y_text = << >>
    /\ y_query = None
    /\ y_filename = 0

PairIdle == g_runs = << >>

QaIdle ==
    /\ PairIdle
    /\ AnswerIdle
    /\ ParseIdle
    /\ SessionIdle
    /\ YearIdle
    /\ driver = "none"
    /\ stage = "IDLE"
    /\ RequestIdle
    /\ FallbackIdle

(***************************************************************************)
(* Generic helpers.                                                        *)
(***************************************************************************)
Min(a, b) == IF a <= b THEN a ELSE b

SeqsUpTo(S, n) == UNION {[1..m -> S] : m \in 0..n}

RECURSIVE Flatten(_)
Flatten(ss) == IF ss = <<>> THEN <<>> ELSE Head(ss) \o Flatten(Tail(ss))

(***************************************************************************)
(* utils.py: strings.                                                      *)
(***************************************************************************)
\* The characters of the modelled texts: two letters, a space and a newline.
Alphabet == {"a", "b", " ", "\n"}

\* str.strip() removes these (the whitespace of the alphabet).
IsSpace(c) == c \in {" ", "\n"}

RECURSIVE LStrip(_)
LStrip(s) == IF s # <<>> /\ IsSpace(Head(s)) THEN LStrip(Tail(s)) ELSE s

RECURSIVE RStrip(_)
RStrip(s) ==
    IF s # <<>> /\ IsSpace(s[Len(s)]) THEN RStrip(SubSeq(s, 1, Len(s) - 1)) ELSE s

\* Python's str.strip()
Strip(s) == RStrip(LStrip(s))

\* Python's text.split('\n\n'): left to right, separators do not overlap.
\* i is the next position to read, cur the piece being collected.
RECURSIVE SplitFrom(_, _, _)
SplitFrom(s, i, cur) ==
    IF i > Len(s) THEN <<cur>>
    ELSE IF i < Len(s) /\ s[i] = "\n" /\ s[i + 1] = "\n"
         THEN <<cur>> \o SplitFrom(s, i + 2, <<>>)
         ELSE SplitFrom(s, i + 1, Append(cur, s[i]))

SplitParagraphs(s) == SplitFrom(s, 1, <<>>)

\* Python's s[-n:] for n >= 0 and len(s) > n: the last n characters, but the
\* whole string when n = 0 (-0 is 0, and s[0:] is s).
LastChars(s, n) == IF n = 0 THEN s ELSE SubSeq(s, Len(s) - n + 1, Len(s))

(***************************************************************************)
(* utils.py: chunk_text, fixed-width windowing.                            *)
(***************************************************************************)
\* The while loop from position start (0-based) on.
RECURSIVE ChunkTextFrom(_, _, _, _)
ChunkTextFrom(text, start, chunk_size, overlap) ==
    IF start < Len(text)
    THEN LET end == Min(start + chunk_size, Len(text))
             chunk == SubSeq(text, start + 1, end)
         IN  <<Strip(chunk)>>
                 \o ChunkTextFrom(text, start + chunk_size - overlap, chunk_size, overlap)
    ELSE <<>>

\* A variant of chunk_text that advances by chunk_size + overlap (the sign of the
\* overlap flipped), so the windows leave gaps.
chunk_text_gap(text, chunk_size, overlap) == ChunkTextFrom(text, 0, chunk_size, 0 - overlap)

chunk_text(text, chunk_size, overlap) == ChunkTextFrom(text, 0, chunk_size, overlap)

(***************************************************************************)
(* utils.py: chunk_by_sections.                                            *)
(***************************************************************************)
\* One iteration of the paragraph loop.  st = [chunks, current_chunk].
\* (is_section_header is computed by the code and never read.)
ParagraphStep(st, raw, chunk_size, overlap) ==
    LET paragraph == Strip(raw)
        current_chunk == st.current_chunk
    IN  IF paragraph = <<>> THEN st
        ELSE IF Len(current_chunk) + Len(paragraph) > chunk_size /\ current_chunk # <<>>
        THEN LET overlap_text == IF Len(current_chunk) > overlap
                                 THEN LastChars(current_chunk, overlap)
                                 ELSE current_chunk
             IN  [chunks |-> Append(st.chunks, Strip(current_chunk)),
                  current_chunk |-> overlap_text \o <<"\n", "\n">> \o paragraph]
        ELSE [chunks |-> st.chunks,
              current_chunk |-> IF current_chunk # <<>>
                                THEN current_chunk \o <<"\n", "\n">> \o paragraph
                                ELSE paragraph]

RECURSIVE ParagraphLoop(_, _, _, _)
ParagraphLoop(st, paragraphs, chunk_size, overlap) ==
    IF paragraphs = <<>> THEN st
    ELSE ParagraphLoop(ParagraphStep(st, Head(paragraphs), chunk_size, overlap),
                       Tail(paragraphs), chunk_size, overlap)

\* The chunks after the paragraph loop and "add the last chunk".
SectionChunks(text, chunk_size, overlap) ==
    LET st == ParagraphLoop([chunks |-> <<>>, current_chunk |-> <<>>],
                            SplitParagraphs(text), chunk_size, overlap)
    IN  IF st.current_chunk # <<>>
        THEN Append(st.chunks, Strip(st.current_chunk))
        ELSE st.chunks

\* A variant of the oversize pass with the threshold at 3 x chunk_size.
ResplitAtTriple(chunk, chunk_size, overlap) ==
    IF Len(chunk) > chunk_size * 3
    THEN chunk_text(chunk, chunk_size, overlap)
    ELSE <<chunk>>

\* "If chunks are too large, split them further using regular chunking"
Resplit(chunk, chunk_size, overlap) ==
    IF Len(chunk) > chunk_size * 2
    THEN chunk_text(chunk, chunk_size, overlap)
    ELSE <<chunk>>

RECURSIVE ResplitAll(_, _, _)
ResplitAll(chunks, chunk_size, overlap) ==
    IF chunks = <<>> THEN <<>>
    ELSE Resplit(Head(chunks), chunk_size, overlap)
             \o ResplitAll(Tail(chunks), chunk_size, overlap)

\* A variant of chunk_by_sections without the fall-back to regular chunking.
chunk_by_sections_no_fallback(text, chunk_size, overlap) ==
    ResplitAll(SectionChunks(text, chunk_size, overlap), chunk_size, overlap)

\* "If no semantic chunks were created, fall back to regular chunking"
chunk_by_sections(text, chunk_size, overlap) ==
    LET final_chunks == ResplitAll(SectionChunks(text, chunk_size, overlap),
                                   chunk_size, overlap)
    IN  IF final_chunks = <<>>
        THEN chunk_text(text, chunk_size, overlap)
        ELSE final_chunks

(***************************************************************************)
(* query.py: retrieve.                                                     *)
(***************************************************************************)
\* Python's truth value of target_year: None and 0 are false.
Truthy(y) == y # None /\ y # 0

Abs(n) == IF n < 0 THEN 0 - n ELSE n

Digit(d) == CASE d = 0 -> "0" [] d = 1 -> "1" [] d = 2 -> "2" [] d = 3 -> "3"
              [] d = 4 -> "4" [] d = 5 -> "5" [] d = 6 -> "6" [] d = 7 -> "7"
              [] d = 8 -> "8" [] d = 9 -> "9"

\* Python's str(int(n)): the decimal string of n.
RECURSIVE Str(_)
Str(n) == IF n < 0 THEN "-" \o Str(0 - n)
          ELSE IF n < 10 THEN Digit(n)
          ELSE Str(n \div 10) \o Digit(n % 10)

\* The years a chunk's metadata carries (0 is "unknown") and the target years
\* of the modelled queries.
ChunkYears == {0, 2020, 2021, 2023}
TargetYears == {None, 2021, 2022}
KValues == {1, 2}

Rows == 0..(NumRows - 1)

\* The metadata store: some rows may have no entry.  The chunk of row i is
\* chunk i of the one source document.
ChunkOfRow(i, y) == [source |-> "report.pdf", chunk_index |-> i, year |-> y]

MetaStores ==
    UNION { { [key \in {Str(i) : i \in present} |->
                 ChunkOfRow(CHOOSE i \in present : Str(i) = key,
                            years[CHOOSE i \in present : Str(i) = key])]
              : years \in [Rows -> ChunkYears] }
            : present \in SUBSET Rows }

\* index.search(q_emb, search_k) of an index of NumRows vectors: the
\* min(search_k, NumRows) nearest rows in non-decreasing distance (ties in any
\* order), padded with -1 up to search_k entries.
\* NearestFirst: the orders in which n rows of `remaining` can be returned.
RECURSIVE NearestFirst(_, _)
NearestFirst(remaining, n) ==
    IF n = 0 \/ remaining = {} THEN { << >> }
    ELSE UNION { { <<r>> \o rest : rest \in NearestFirst(remaining \ {r}, n - 1) }
                 : r \in { x \in remaining :
                             \A y \in remaining : rdist[x] <= rdist[y] } }

SearchResults(search_k) ==
    { ids \o [i \in 1..(search_k - Len(ids)) |-> 0 - 1]
      : ids \in NearestFirst(Rows, Min(search_k, NumRows)) }

\* A variant of the year test without the absolute value.
YearAcceptsSigned(chunk_year, y_target) ==
    chunk_year = y_target \/ chunk_year - y_target <= 1

\* A variant of the year test that lets a chunk of unknown year (0) pass.
YearAcceptsUnknown(chunk_year, y_target) ==
    chunk_year = 0 \/ chunk_year = y_target \/ Abs(chunk_year - y_target) <= 1

\* "Prioritize exact year match, then allow nearby years"
YearAccepts(chunk_year, y_target) ==
    chunk_year = y_target \/ Abs(chunk_year - y_target) <= 1

\* A variant of results.append(chunk) that puts the chunk first.
AcceptFirst(res, chunk) == <<chunk>> \o res

\* results.append(chunk)
Accept(res, chunk) == Append(res, chunk)

\* A variant of the loop body below that never tests the year.
WalkResultsUnfiltered(res, idx, y_target) ==
    LET sid == Str(idx)
    IN  IF sid \in DOMAIN rmeta THEN Accept(res, rmeta[sid]) ELSE res

\* The body of the for loop for neighbour id idx: the new results list.
WalkResults(res, idx, y_target) ==
    LET sid == Str(idx)
    IN  IF sid \in DOMAIN rmeta
        THEN LET chunk == rmeta[sid]
             IN  IF Truthy(y_target)
                 THEN IF YearAccepts(chunk.year, y_target)
                      THEN Accept(res, chunk)
                      ELSE res
                 ELSE Accept(res, chunk)
        ELSE res

\* results[:k]
FirstK(res, k) == SubSeq(res, 1, Min(k, Len(res)))

InitRetrieve ==
    /\ QaIdle
    /\ ChunkIdle
    /\ IngestIdle
    /\ rpc = "call"
    /\ rmeta \in MetaStores
    /\ rdist \in [Rows -> 0..1]
    /\ rk \in KValues
    /\ rtarget \in TargetYears
    /\ rI = << >>
    /\ rpos = 0
    /\ results = << >>
    /\ rret = << >>

\* search_k = k * 3 if target_year else k;  D, I = index.search(q_emb, search_k)
Search ==
    /\ rpc = "call"
    /\ LET search_k == IF Truthy(rtarget) THEN rk * 3 ELSE rk
       IN  rI' \in SearchResults(search_k)
    /\ rpos' = 1
    /\ results' = << >>
    /\ rpc' = "walk"
    /\ UNCHANGED <<rmeta, rdist, rk, rtarget, rret>>
    /\ UNCHANGED <<chunkVars, ingestVars, qaVars>>

\* One iteration of "for idx in I[0]", with its break.
WalkStep ==
    /\ rpc = "walk"
    /\ rpos <= Len(rI)
    /\ LET idx == rI[rpos]
           res == WalkResults(results, idx, rtarget)
           brk == Str(idx) \in DOMAIN rmeta /\ Len(res) >= rk
       IN  /\ results' = res
           /\ rpos' = rpos + 1
           /\ rpc' = IF brk \/ rpos = Len(rI) THEN "ret" ELSE "walk"
    /\ UNCHANGED <<rmeta, rdist, rk, rtarget, rI, rret>>
    /\ UNCHANGED <<chunkVars, ingestVars, qaVars>>

\* return results[:k]
Return ==
    /\ rpc = "ret"
    /\ rret' = FirstK(results, rk)
    /\ rpc' = "done"
    /\ UNCHANGED <<rmeta, rdist, rk, rtarget, rI, rpos, results>>
    /\ UNCHANGED <<chunkVars, ingestVars, qaVars>>

NextRetrieve == Search \/ WalkStep \/ Return

SpecRetrieve == InitRetrieve /\ [][NextRetrieve]_vars

(***************************************************************************)
(* ingest.py: the ingestion run.                                           *)
(*                                                                         *)
(* A chunk's text is the pair <<document, position>> it was cut from; the  *)
(* embedding service maps a text to its vector.  build_index either        *)
(* writes both files or raises before writing.                             *)
(***************************************************************************)
\* batch_size of embed_texts, scaled down from 100.
BatchSize == 2

\* The file names of the modelled documents and the year in each name
\* (extract_year_from_filename: 0 when the name holds no year).
DocName(d) == IF d = 1 THEN "report_2021.pdf" ELSE "notes_" \o Str(d) \o ".pdf"
DocYear(d) == IF d = 1 THEN 2021 ELSE 0

\* The chunks chunk_by_sections cut from document d when it yields n of them.
DocChunks(d, n) == [i \in 1..n |-> <<d, i>>]

\* c[:4000]: a chunk of chunk_by_sections(text, 1200, 300) has at most 2400
\* characters, so the stored text is the chunk.
Truncated(c) == c

\* A variant of the metadata record keyed by the chunk's position in its
\* document instead of the corpus-wide counter.
MetaRecordByPosition(counter, d, i, c) ==
    [id |-> Str(i), source |-> DocName(d), chunk_index |-> i,
     text |-> Truncated(c), year |-> DocYear(d), report_year |-> DocYear(d)]

\* The dict built for chunk c, the i-th (0-based) of document d.
MetaRecord(counter, d, i, c) ==
    [id |-> Str(counter), source |-> DocName(d), chunk_index |-> i,
     text |-> Truncated(c), year |-> DocYear(d), report_year |-> DocYear(d)]

\* A variant of the loop below in which the counter starts again at 0 for
\* every document.
DocMetadataFromZero(counter, d, chunks) ==
    [i \in 1..Len(chunks) |-> MetaRecord(i - 1, d, i - 1, chunks[i])]

\* The inner for loop over a document's chunks: the records appended to
\* metadata, starting at id_counter = counter.
DocMetadata(counter, d, chunks) ==
    [i \in 1..Len(chunks) |-> MetaRecord(counter + i - 1, d, i - 1, chunks[i])]

\* The vector the embedding service returns for a text, and the substituted
\* zero vector ([0.0] * 3072).
Embedding(c) == [zero |-> FALSE, of |-> c]
ZeroVector == [zero |-> TRUE, of |-> <<0, 0>>]

\* A variant of the substitution that adds one zero vector for the batch.
OneZeroForBatch(batch) == <<ZeroVector>>

\* [[0.0] * 3072 for _ in batch]
ZerosForBatch(batch) == [i \in 1..Len(batch) |-> ZeroVector]

\* [r.embedding for r in resp.data]
BatchEmbeddings(batch) == [i \in 1..Len(batch) |-> Embedding(batch[i])]

\* ids_for_save: the dict comprehension over metadata (a later record with
\* the same id replaces an earlier one).
IdsForSave(md) ==
    [key \in {md[i].id : i \in 1..Len(md)} |->
        LET last == CHOOSE i \in 1..Len(md) :
                        /\ md[i].id = key
                        /\ \A j \in 1..Len(md) : md[j].id = key => j <= i
        IN  [source |-> md[last].source, chunk_index |-> md[last].chunk_index,
             text |-> md[last].text, year |-> md[last].year,
             report_year |-> md[last].report_year]]

InitIngest ==
    /\ QaIdle
    /\ ChunkIdle
    /\ RetrIdle
    /\ ipc = "scan"
    /\ pdf_files \in {[i \in 1..n |-> i] : n \in 0..NumDocs}
    /\ idoc = 0
    /\ skipped = {}
    /\ all_chunks = << >>
    /\ metadata = << >>
    /\ id_counter = 0
    /\ embed_i = 0
    /\ all_embeddings = << >>
    /\ failed_batches = {}
    /\ index_file = << >>
    /\ meta_file = << >>

\* "if not pdf_files: ... exit(1)"
Scan ==
    /\ ipc = "scan"
    /\ IF pdf_files = << >> THEN ipc' = "exit1" /\ idoc' = idoc
                            ELSE ipc' = "docs" /\ idoc' = 1
    /\ UNCHANGED <<pdf_files, skipped, all_chunks, metadata, id_counter, embed_i,
                   all_embeddings, failed_batches, index_file, meta_file>>
    /\ UNCHANGED <<chunkVars, retrVars, qaVars>>

\* One iteration of "for fname in pdf_files" whose extraction and chunking
\* succeed, with n chunks.
ProcessDoc ==
    /\ ipc = "docs"
    /\ idoc <= Len(pdf_files)
    /\ \E n \in 0..MaxDocChunks :
          LET d == pdf_files[idoc]
              chunks == DocChunks(d, n)
          IN  /\ metadata' = metadata \o DocMetadata(id_counter, d, chunks)
              /\ all_chunks' = all_chunks \o chunks
              /\ id_counter' = id_counter + n
    /\ idoc' = idoc + 1
    /\ UNCHANGED <<ipc, pdf_files, skipped, embed_i, all_embeddings, failed_batches,
                   index_file, meta_file>>
    /\ UNCHANGED <<chunkVars, retrVars, qaVars>>

\* One iteration whose extraction raises: "except Exception ... continue".
SkipDoc ==
    /\ ipc = "docs"
    /\ idoc <= Len(pdf_files)
    /\ skipped' = skipped \cup {pdf_files[idoc]}
    /\ idoc' = idoc + 1
    /\ UNCHANGED <<ipc, pdf_files, all_chunks, metadata, id_counter, embed_i,
                   all_embeddings, failed_batches, index_file, meta_file>>
    /\ UNCHANGED <<chunkVars, retrVars, qaVars>>

\* After the loop: "if not all_chunks: ... exit(1)", else embed_texts starts.
CheckChunks ==
    /\ ipc = "docs"
    /\ idoc > Len(pdf_files)
    /\ ipc' = IF all_chunks = << >> THEN "exit1" ELSE "embed"
    /\ UNCHANGED <<pdf_files, idoc, skipped, all_chunks, metadata, id_counter, embed_i,
                   all_embeddings, failed_batches, index_file, meta_file>>
    /\ UNCHANGED <<chunkVars, retrVars, qaVars>>

\* texts[i:i + batch_size]
BatchAt(i) == SubSeq(all_chunks, i + 1, Min(i + BatchSize, Len(all_chunks)))

\* One iteration of the batch loop of embed_texts whose call succeeds.
EmbedBatch ==
    /\ ipc = "embed"
    /\ embed_i < Len(all_chunks)
    /\ all_embeddings' = all_embeddings \o BatchEmbeddings(BatchAt(embed_i))
    /\ embed_i' = embed_i + BatchSize
    /\ UNCHANGED <<ipc, pdf_files, idoc, skipped, all_chunks, metadata, id_counter,
                   failed_batches, index_file, meta_file>>
    /\ UNCHANGED <<chunkVars, retrVars, qaVars>>

\* One iteration whose call raises: zero vectors stand in for the batch.
EmbedBatchFails ==
    /\ ipc = "embed"
    /\ embed_i < Len(all_chunks)
    /\ all_embeddings' = all_embeddings \o ZerosForBatch(BatchAt(embed_i))
    /\ failed_batches' = failed_batches \cup {embed_i}
    /\ embed_i' = embed_i + BatchSize
    /\ UNCHANGED <<ipc, pdf_files, idoc, skipped, all_chunks, metadata, id_counter,
                   index_file, meta_file>>
    /\ UNCHANGED <<chunkVars, retrVars, qaVars>>

\* embed_texts returns np.array(all_embeddings).
EmbedReturn ==
    /\ ipc = "embed"
    /\ embed_i >= Len(all_chunks)
    /\ ipc' = "build"
    /\ UNCHANGED <<pdf_files, idoc, skipped, all_chunks, metadata, id_counter, embed_i,
                   all_embeddings, failed_batches, index_file, meta_file>>
    /\ UNCHANGED <<chunkVars, retrVars, qaVars>>

\* build_index(embeddings=embs, ids=ids_for_save): index.add, write_index,
\* json.dump; "Index and metadata saved successfully."
BuildIndex ==
    /\ ipc = "build"
    /\ index_file' = all_embeddings
    /\ meta_file' = IdsForSave(metadata)
    /\ ipc' = "done"
    /\ UNCHANGED <<pdf_files, idoc, skipped, all_chunks, metadata, id_counter, embed_i,
                   all_embeddings, failed_batches>>
    /\ UNCHANGED <<chunkVars, retrVars, qaVars>>

\* build_index raises: "except Exception ... exit(1)".
BuildFails ==
    /\ ipc = "build"
    /\ ipc' = "exit1"
    /\ UNCHANGED <<pdf_files, idoc, skipped, all_chunks, metadata, id_counter, embed_i,
                   all_embeddings, failed_batches, index_file, meta_file>>
    /\ UNCHANGED <<chunkVars, retrVars, qaVars>>

NextIngest ==
    \/ Scan \/ ProcessDoc \/ SkipDoc \/ CheckChunks
    \/ EmbedBatch \/ EmbedBatchFails \/ EmbedReturn
    \/ BuildIndex \/ BuildFails

SpecIngest == InitIngest /\ [][NextIngest]_vars

(***************************************************************************)
(* The chunker's specification: the arguments are drawn from the bounded   *)
(* sets, with chunk_size >= 1 and 0 <= overlap < chunk_size, and one       *)
(* action applies chunk_by_sections.                                       *)
(***************************************************************************)
InitChunk ==
    /\ QaIdle
    /\ RetrIdle
    /\ IngestIdle
    /\ cpc = "input"
    /\ ctext \in SeqsUpTo(Alphabet, MaxTextLen)
    /\ csize \in 1..MaxChunkSize
    /\ coverlap \in 0..(csize - 1)
    /\ cresult = <<>>
    /\ WindowIdle

CallChunkBySections ==
    /\ cpc = "input"
    /\ cresult' = chunk_by_sections(ctext, csize, coverlap)
    /\ cpc' = "done"
    /\ UNCHANGED <<ctext, csize, coverlap, windowVars>>
    /\ UNCHANGED <<retrVars, ingestVars, qaVars>>

NextChunk == CallChunkBySections

SpecChunk == InitChunk /\ [][NextChunk]_vars

(***************************************************************************)
(* The while loop of chunk_text, one iteration per step.  chunk_text is    *)
(* called with the whole text (directly, and by the fall-back of           *)
(* chunk_by_sections) and with every oversize chunk of the paragraph pass. *)
(* The loop is sequential code: a step that can be taken is taken.         *)
(***************************************************************************)
\* The texts chunk_text is called with for the arguments of a call of
\* chunk_by_sections.
WindowedTexts(text, chunk_size, overlap) ==
    {text} \cup { SectionChunks(text, chunk_size, overlap)[i] :
                    i \in { j \in 1..Len(SectionChunks(text, chunk_size, overlap)) :
                               Len(SectionChunks(text, chunk_size, overlap)[j])
                                   > chunk_size * 2 } }

\* A variant of the advance that moves the start by the overlap.
NextStartByOverlap(start, chunk_size, overlap) == start + overlap

\* start += chunk_size - overlap
NextStart(start, chunk_size, overlap) == start + chunk_size - overlap

\* The characters of the texts of this specification: a letter and the
\* newline that separates paragraphs and is stripped from a window.
WindowAlphabet == {"a", "\n"}

InitWindow ==
    /\ QaIdle
    /\ RetrIdle
    /\ IngestIdle
    /\ cpc = "input"
    /\ ctext \in SeqsUpTo(WindowAlphabet, MaxTextLen)
    /\ csize \in 1..MaxChunkSize
    /\ coverlap \in 0..(csize - 1)
    /\ cresult = <<>>
    /\ wpc = "loop"
    /\ wtext \in WindowedTexts(ctext, csize, coverlap)
    /\ wstart = 0
    /\ wchunks = <<>>

\* One iteration of "while start < text_len".
WindowStep ==
    /\ wpc = "loop"
    /\ wstart < Len(wtext)
    /\ LET end == Min(wstart + csize, Len(wtext))
           chunk == SubSeq(wtext, wstart + 1, end)
       IN  wchunks' = Append(wchunks, Strip(chunk))
    /\ wstart' = NextStart(wstart, csize, coverlap)
    /\ UNCHANGED <<wpc, wtext>>
    /\ UNCHANGED <<cpc, ctext, csize, coverlap, cresult>>
    /\ UNCHANGED <<retrVars, ingestVars, qaVars>>

\* The loop condition fails: return chunks.
WindowReturn ==
    /\ wpc = "loop"
    /\ wstart >= Len(wtext)
    /\ wpc' = "done"
    /\ UNCHANGED <<wtext, wstart, wchunks>>
    /\ UNCHANGED <<cpc, ctext, csize, coverlap, cresult>>
    /\ UNCHANGED <<retrVars, ingestVars, qaVars>>

NextWindow == WindowStep \/ WindowReturn

SpecWindow == InitWindow /\ [][NextWindow]_vars /\ WF_vars(NextWindow)

(***************************************************************************)
(* query.py: text helpers of the question-answering pipeline.              *)
(*                                                                         *)
(* A text is a sequence of pieces: single characters, or a fixed phrase of *)
(* the program written as one piece.                                       *)
(***************************************************************************)
IsDigit(c) == c \in {Digit(d) : d \in 0..9}

DigitValue(c) == CHOOSE d \in 0..9 : Digit(d) = c

\* int() of a run of digits.
RECURSIVE NumberOf(_)
NumberOf(ds) ==
    IF ds = << >> THEN 0
    ELSE 10 * NumberOf(SubSeq(ds, 1, Len(ds) - 1)) + DigitValue(ds[Len(ds)])

\* Python's "phrase in text"
Contains(text, phrase) ==
    \E i \in 1..(Len(text) - Len(phrase) + 1) :
        SubSeq(text, i, i + Len(phrase) - 1) = phrase

\* Python's line.startswith(prefix)
StartsWith(line, prefix) ==
    Len(line) >= Len(prefix) /\ SubSeq(line, 1, Len(prefix)) = prefix

\* Python's line[n:]
DropFirst(line, n) == SubSeq(line, n + 1, Len(line))

\* Python's response_text.split('\n')
RECURSIVE SplitLinesFrom(_, _, _)
SplitLinesFrom(s, i, cur) ==
    IF i > Len(s) THEN <<cur>>
    ELSE IF s[i] = "\n" THEN <<cur>> \o SplitLinesFrom(s, i + 1, << >>)
    ELSE SplitLinesFrom(s, i + 1, Append(cur, s[i]))

SplitLines(s) == SplitLinesFrom(s, 1, << >>)

RECURSIVE JoinLines(_)
JoinLines(lines) ==
    IF lines = << >> THEN << >>
    ELSE IF Len(lines) = 1 THEN Head(lines)
    ELSE Head(lines) \o <<"\n">> \o JoinLines(Tail(lines))

\* re.search(r'20\d{2}', query) matches at position i.
YearMatchAt(q, i) ==
    /\ i + 3 <= Len(q)
    /\ q[i] = "2" /\ q[i + 1] = "0"
    /\ IsDigit(q[i + 2]) /\ IsDigit(q[i + 3])

\* extract_year_from_query: the leftmost match as an int, or None.
extract_year_from_query(q) ==
    IF \E i \in 1..Len(q) : YearMatchAt(q, i)
    THEN LET i == CHOOSE k \in 1..Len(q) :
                      YearMatchAt(q, k) /\ \A j \in 1..(k - 1) : ~YearMatchAt(q, j)
         IN  NumberOf(SubSeq(q, i, i + 3))
    ELSE None

\* The sentinel phrases.
IDontKnow == <<"I don't know">>
NoRelevantInformationFound == <<"No relevant information found">>

\* The parsing loop of generate_alternative_questions and decompose_question:
\* the '- ' lines of the response, stripped, in order.
RECURSIVE DashItems(_)
DashItems(lines) ==
    IF lines = << >> THEN << >>
    ELSE LET line == Strip(Head(lines))
         IN  (IF StartsWith(line, <<"-", " ">>)
              THEN <<Strip(DropFirst(line, 2))>>
              ELSE << >>) \o DashItems(Tail(lines))

ParseDashList(response_text) == DashItems(SplitLines(response_text))

\* The parsing loop of analyze_missing_information.
RECURSIVE AnalysisItems(_, _, _)
AnalysisItems(lines, current_section, acc) ==
    IF lines = << >> THEN acc
    ELSE LET line == Strip(Head(lines))
         IN  IF StartsWith(line, <<"MISSING INFORMATION:">>)
             THEN AnalysisItems(Tail(lines), "missing", acc)
             ELSE IF StartsWith(line, <<"FOLLOW-UP QUESTIONS NEEDED:">>)
             THEN AnalysisItems(Tail(lines), "questions", acc)
             ELSE IF StartsWith(line, <<"-", " ">>) /\ current_section = "missing"
             THEN AnalysisItems(Tail(lines), current_section,
                      [acc EXCEPT !.missing_info = Append(@, Strip(DropFirst(line, 2)))])
             ELSE IF StartsWith(line, <<"-", " ">>) /\ current_section = "questions"
             THEN AnalysisItems(Tail(lines), current_section,
                      [acc EXCEPT !.follow_up_questions =
                                      Append(@, Strip(DropFirst(line, 2)))])
             ELSE AnalysisItems(Tail(lines), current_section, acc)

\* A variant of the parse below whose current_section starts as 'missing'.
ParseAnalysisFromMissing(response_text) ==
    AnalysisItems(SplitLines(response_text), "missing",
                  [missing_info |-> << >>, follow_up_questions |-> << >>])

\* analyze_missing_information: current_section = None, then the loop.
ParseAnalysis(response_text) ==
    AnalysisItems(SplitLines(response_text), "none",
                  [missing_info |-> << >>, follow_up_questions |-> << >>])

\* re.findall(r'\[(\d+)\]', answer) as ints.
RECURSIVE DigitsEnd(_, _)
DigitsEnd(s, i) == IF i <= Len(s) /\ IsDigit(s[i]) THEN DigitsEnd(s, i + 1) ELSE i

RECURSIVE CitedFrom(_, _)
CitedFrom(s, i) ==
    IF i > Len(s) THEN << >>
    ELSE IF s[i] = "["
         THEN LET e == DigitsEnd(s, i + 1)
              IN  IF e > i + 1 /\ e <= Len(s) /\ s[e] = "]"
                  THEN <<NumberOf(SubSeq(s, i + 1, e - 1))>> \o CitedFrom(s, e + 1)
                  ELSE CitedFrom(s, i + 1)
         ELSE CitedFrom(s, i + 1)

CitedNumbers(answer) == CitedFrom(answer, 1)

\* f"[{num}] {chunk['source']}, chunk {chunk['chunk_index']}"
SourceLine(num, chunk) ==
    <<"[", Str(num), "] ", chunk.source, ", chunk ", Str(chunk.chunk_index)>>

\* A variant of the loop below that cites the first chunk for every marker.
RECURSIVE SourcesOfFirstChunk(_, _)
SourcesOfFirstChunk(cited, hits) ==
    IF cited = << >> THEN << >>
    ELSE (IF 1 <= Head(cited) /\ Head(cited) <= Len(hits)
          THEN <<SourceLine(Head(cited), hits[1])>>
          ELSE << >>) \o SourcesOfFirstChunk(Tail(cited), hits)

\* The loop over cited_numbers.
RECURSIVE SourcesOf(_, _)
SourcesOf(cited, hits) ==
    IF cited = << >> THEN << >>
    ELSE (IF 1 <= Head(cited) /\ Head(cited) <= Len(hits)
          THEN <<SourceLine(Head(cited), hits[Head(cited)])>>
          ELSE << >>) \o SourcesOf(Tail(cited), hits)

\* answer_sub_question, given what retrieve returned and, when there are
\* hits, the text the generation service answered.
answer_sub_question(q, hits, answer) ==
    IF hits = << >>
    THEN [question |-> q,
          answer |-> NoRelevantInformationFound \o <<".">>,
          chunks |-> << >>,
          sources |-> << >>]
    ELSE [question |-> q,
          answer |-> answer,
          chunks |-> hits,
          sources |-> SourcesOf(CitedNumbers(answer), hits)]

\* A variant of the test below that looks for the "I don't know" phrase only.
IndicatesNoDataIdkOnly(answer) == Contains(answer, IDontKnow)

\* "Check if the answer indicates no data found" (first attempt)
IndicatesNoData(answer) ==
    Contains(answer, IDontKnow) \/ Contains(answer, NoRelevantInformationFound)

\* A variant of the test below that takes every alternative's answer.
FoundDataAlways(answer) == TRUE

\* "If we found data, use this result" (an alternative's attempt)
FoundData(answer) ==
    ~Contains(answer, IDontKnow) /\ ~Contains(answer, NoRelevantInformationFound)

\* A variant of the annotation that leaves the alternative's own question.
AnnotatedQuestionKept(sub_q, alt_question) == alt_question

\* f"{sub_question} (tried alternative: {alt_question})"
AnnotatedQuestion(sub_q, alt_question) ==
    sub_q \o <<" (tried alternative: ">> \o alt_question \o <<")">>

\* A variant of the context below that leaves out the first result.
SynthesisContextWithoutFirst(sub_question_results) ==
    [i \in 1..(Len(sub_question_results) - 1) |->
        [question |-> sub_question_results[i + 1].question,
         answer |-> sub_question_results[i + 1].answer,
         sources |-> sub_question_results[i + 1].sources]]

\* The per-result context synthesize_final_answer assembles.
SynthesisContext(sub_question_results) ==
    [i \in 1..Len(sub_question_results) |->
        [question |-> sub_question_results[i].question,
         answer |-> sub_question_results[i].answer,
         sources |-> sub_question_results[i].sources]]

(***************************************************************************)
(* The external services: what they may answer.                            *)
(***************************************************************************)
\* The questions a user asks: one naming a year, one not.
Questions == { <<"Q", " ", "2", "0", "2", "2">>, <<"Q">> }

\* retrieve(sub_question, k=4, target_year): no hit, or one chunk.
TheChunk == [source |-> "report_2022.pdf", chunk_index |-> 7, year |-> 2022,
             text |-> <<"Total Revenue was $120M in 2022.">>]
RetrieveOutcomes == { << >>, <<TheChunk>> }

\* The answering call: a cited answer, or the "I don't know" sentence.
AnswerResponses ==
    { <<"fact", " ", "[", "1", "]">>,
      IDontKnow \o <<" based on the provided documents.">> }

AltQuestion(j) == <<"A", Str(j)>>
FollowUpQuestion(j) == <<"F", Str(j)>>

\* generate_alternative_questions: an opening line and n '- ' lines.
AltResponse(n) ==
    JoinLines(<< <<"Here are alternatives:">> >>
              \o [j \in 1..n |-> <<"-", " ">> \o AltQuestion(j)])
AltResponses == { AltResponse(n) : n \in 0..MaxAlternatives }

\* analyze_missing_information: the two sections, with m follow-up
\* questions; or '- ' lines under no header at all.
GapResponse(m) ==
    JoinLines(<< <<"MISSING INFORMATION:">>, <<"-", " ", "gap">>,
                 <<"FOLLOW-UP QUESTIONS NEEDED:">> >>
              \o [j \in 1..m |-> <<"-", " ">> \o FollowUpQuestion(j)])
MalformedGapResponse == JoinLines(<< <<"-", " ", "gap">>, <<"-", " ", "F", "1">> >>)
GapResponses == { GapResponse(m) : m \in 0..MaxFollowUps } \cup { MalformedGapResponse }

SynthesisResponses == { <<"synthesized answer">> }

(***************************************************************************)
(* query.py / streamlit_app.py: the question-answering session.            *)
(*                                                                         *)
(* driver = "cli" is the loop of query.py's __main__, which calls retrieve *)
(* and then generate_answer; driver = "ui" is the chat handler of          *)
(* streamlit_app.py, which runs the same steps inline.  Every call to a    *)
(* service (retrieval, embedding, generation) may raise.                   *)
(***************************************************************************)
notQaVars == <<chunkVars, retrVars, ingestVars, answerVars, parseVars, sessionVars,
               yearVars, pairVars>>

\* A call of answer_sub_question_with_fallback(q, y) begins.
FallbackStarts(q, y) ==
    /\ fpc' = "first"
    /\ sub_question' = q
    /\ f_year' = y
    /\ f_result' = NoResult
    /\ alternatives' = << >>
    /\ alt_idx' = 0
    /\ f_attempts' = << >>
    /\ f_years' = << >>
    /\ altgen_calls' = 0
    /\ f_ret' = NoResult

\* No call of answer_sub_question_with_fallback is in progress.
FallbackCleared ==
    /\ fpc' = "none"
    /\ sub_question' = << >>
    /\ f_year' = None
    /\ f_result' = NoResult
    /\ alternatives' = << >>
    /\ alt_idx' = 0
    /\ f_attempts' = << >>
    /\ f_years' = << >>
    /\ altgen_calls' = 0
    /\ f_ret' = NoResult

InitQA ==
    /\ PairIdle
    /\ YearIdle
    /\ ChunkIdle
    /\ RetrIdle
    /\ IngestIdle
    /\ AnswerIdle
    /\ ParseIdle
    /\ SessionIdle
    /\ driver \in {"cli", "ui"}
    /\ stage = "IDLE"
    /\ RequestIdle
    /\ FallbackIdle

\* A variant of the set below in which a failed request ends the session.
QuestionStagesWithoutFailed == {"IDLE", "DONE"}

\* The stages in which the driver reads a question: at the start of the
\* session, after an answer was shown, and after "except Exception" reported
\* an error (the while loop of query.py goes on; the app's script ends and
\* is run again on the next input).
QuestionStages == {"IDLE", "DONE", "FAILED"}

\* The next question is read: input() in query.py, st.chat_input in the app.
\* The cli extracts the year and goes on to retrieve; the app extracts the
\* year and calls the fallback-answerer on the question.
ReadQuestion ==
    /\ stage \in QuestionStages
    /\ \E q \in Questions :
          /\ question' = q
          /\ target_year' = extract_year_from_query(q)
          /\ IF driver = "cli"
             THEN stage' = "RETRIEVE" /\ main_calls' = 0 /\ FallbackCleared
             ELSE /\ stage' = "MAIN_ATTEMPT"
                  /\ main_calls' = 1
                  /\ FallbackStarts(q, extract_year_from_query(q))
    /\ retrieved' = << >>
    /\ main_result' = NoResult
    /\ missing_info' = << >>
    /\ follow_up_questions' = << >>
    /\ fu_idx' = 0
    /\ follow_up_results' = << >>
    /\ follow_up_marks' = << >>
    /\ synth_context' = << >>
    /\ final_answer' = << >>
    /\ gap_calls' = 0
    /\ synth_calls' = 0
    /\ UNCHANGED driver
    /\ UNCHANGED notQaVars

\* cli: retrieved = retrieve(q, k=4, target_year); generate_answer(q, retrieved)
\* then extracts the year again and calls the fallback-answerer.
CliRetrieve ==
    /\ stage = "RETRIEVE"
    /\ \E hits \in RetrieveOutcomes : retrieved' = hits
    /\ target_year' = extract_year_from_query(question)
    /\ stage' = "MAIN_ATTEMPT"
    /\ main_calls' = main_calls + 1
    /\ FallbackStarts(question, extract_year_from_query(question))
    /\ UNCHANGED <<driver, question, main_result, missing_info,
                   follow_up_questions, fu_idx, follow_up_results, follow_up_marks, synth_context,
                   final_answer, gap_calls, synth_calls>>
    /\ UNCHANGED notQaVars

\* result = answer_sub_question(sub_question, target_year), and the test of
\* its answer.
FirstAttempt ==
    /\ fpc = "first"
    /\ \E hits \in RetrieveOutcomes, answer \in AnswerResponses :
          LET result == answer_sub_question(sub_question, hits, answer)
          IN  /\ f_result' = result
              /\ f_attempts' = <<result>>
              /\ IF IndicatesNoData(result.answer)
                 THEN fpc' = "altgen" /\ f_ret' = f_ret
                 ELSE fpc' = "ret" /\ f_ret' = result
    /\ f_years' = <<f_year>>
    /\ UNCHANGED <<sub_question, f_year, alternatives, alt_idx, altgen_calls>>
    /\ UNCHANGED orchVars
    /\ UNCHANGED notQaVars

\* alternatives = generate_alternative_questions(sub_question); with no
\* alternative the for loop is empty and the original result is returned.
GenerateAlternatives ==
    /\ fpc = "altgen"
    /\ \E response_text \in AltResponses :
          LET alts == ParseDashList(response_text)
          IN  /\ alternatives' = alts
              /\ IF alts = << >>
                 THEN fpc' = "ret" /\ f_ret' = f_result /\ alt_idx' = 0
                 ELSE fpc' = "alts" /\ f_ret' = f_ret /\ alt_idx' = 1
    /\ altgen_calls' = altgen_calls + 1
    /\ UNCHANGED <<sub_question, f_year, f_result, f_attempts, f_years>>
    /\ UNCHANGED orchVars
    /\ UNCHANGED notQaVars

\* A variant in which exhausted alternatives lead to another call of
\* generate_alternative_questions.
AfterAlternativesRegenerate == "altgen"

\* "If all alternatives failed, return the original result"
AfterAlternatives == "ret"

\* One iteration of "for alt_question in alternatives".
AltAttempt ==
    /\ fpc = "alts"
    /\ \E hits \in RetrieveOutcomes, answer \in AnswerResponses :
          LET alt_question == alternatives[alt_idx]
              alt_result == answer_sub_question(alt_question, hits, answer)
          IN  /\ f_attempts' = Append(f_attempts, alt_result)
              /\ IF FoundData(alt_result.answer)
                 THEN /\ f_ret' = [alt_result EXCEPT
                                      !.question = AnnotatedQuestion(sub_question,
                                                                     alt_question)]
                      /\ fpc' = "ret"
                      /\ alt_idx' = alt_idx
                 ELSE IF alt_idx = Len(alternatives)
                 THEN f_ret' = f_result /\ fpc' = AfterAlternatives /\ alt_idx' = alt_idx
                 ELSE f_ret' = f_ret /\ fpc' = "alts" /\ alt_idx' = alt_idx + 1
    /\ f_years' = Append(f_years, f_year)
    /\ UNCHANGED <<sub_question, f_year, f_result, alternatives, altgen_calls>>
    /\ UNCHANGED orchVars
    /\ UNCHANGED notQaVars

\* main_result = answer_sub_question_with_fallback(question, target_year)
MainReturns ==
    /\ stage = "MAIN_ATTEMPT"
    /\ fpc = "ret"
    /\ main_result' = f_ret
    /\ stage' = "GAP_ANALYSIS"
    /\ FallbackCleared
    /\ UNCHANGED <<driver, question, target_year, retrieved, missing_info,
                   follow_up_questions, fu_idx, follow_up_results, follow_up_marks, synth_context,
                   final_answer, main_calls, gap_calls, synth_calls>>
    /\ UNCHANGED notQaVars

\* The app answers with the main answer when there is no follow-up question
\* ("if follow_up_questions: ... else: final_answer = main_result['answer']");
\* generate_answer has no such branch.
ShortCircuits(drv, questions) == drv = "ui" /\ questions = << >>

\* analysis = analyze_missing_information(question, main_result['answer'],
\* main_chunks)
GapAnalysis ==
    /\ stage = "GAP_ANALYSIS"
    /\ \E response_text \in GapResponses :
          LET analysis == ParseAnalysis(response_text)
          IN  /\ missing_info' = analysis.missing_info
              /\ follow_up_questions' = analysis.follow_up_questions
              /\ IF ShortCircuits(driver, analysis.follow_up_questions)
                 THEN /\ stage' = "DONE"
                      /\ final_answer' = main_result.answer
                      /\ fu_idx' = fu_idx
                 ELSE /\ stage' = "FOLLOW_UP"
                      /\ final_answer' = final_answer
                      /\ fu_idx' = 1
    /\ gap_calls' = gap_calls + 1
    /\ UNCHANGED <<driver, question, target_year, retrieved, main_result,
                   follow_up_results, follow_up_marks, synth_context, main_calls, synth_calls>>
    /\ UNCHANGED fallbackVars
    /\ UNCHANGED notQaVars

\* What the driver shows for a follow-up result.  The app: 'if "I don't
\* know" in result['answer']' shows "No additional data found", else "Found
\* missing information"; generate_answer prints the start of the answer.
FollowUpMark(drv, result) ==
    IF drv = "cli" THEN "result printed"
    ELSE IF Contains(result.answer, IDontKnow)
    THEN "No additional data found"
    ELSE "Found missing information"

\* One iteration of the follow-up loop begins:
\* answer_sub_question_with_fallback(follow_up_q, target_year)
FollowUpCall ==
    /\ stage = "FOLLOW_UP"
    /\ fpc = "none"
    /\ fu_idx <= Len(follow_up_questions)
    /\ FallbackStarts(follow_up_questions[fu_idx], target_year)
    /\ UNCHANGED orchVars
    /\ UNCHANGED notQaVars

\* follow_up_results.append(result)
FollowUpReturns ==
    /\ stage = "FOLLOW_UP"
    /\ fpc = "ret"
    /\ follow_up_results' = Append(follow_up_results, f_ret)
    /\ follow_up_marks' = Append(follow_up_marks, FollowUpMark(driver, f_ret))
    /\ fu_idx' = fu_idx + 1
    /\ FallbackCleared
    /\ UNCHANGED <<driver, stage, question, target_year, retrieved, main_result,
                   missing_info, follow_up_questions, synth_context, final_answer,
                   main_calls, gap_calls, synth_calls>>
    /\ UNCHANGED notQaVars

\* A variant in which the end of the follow-up loop leads back to gap analysis.
StageAfterFollowUpsAnalyseAgain == "GAP_ANALYSIS"

\* What follows the follow-up loop.
StageAfterFollowUps == "SYNTHESIS"

\* The follow-up loop is exhausted.
FollowUpsDone ==
    /\ stage = "FOLLOW_UP"
    /\ fpc = "none"
    /\ fu_idx > Len(follow_up_questions)
    /\ stage' = StageAfterFollowUps
    /\ UNCHANGED <<driver, question, target_year, retrieved, main_result,
                   missing_info, follow_up_questions, fu_idx, follow_up_results, follow_up_marks,
                   synth_context, final_answer, main_calls, gap_calls, synth_calls>>
    /\ UNCHANGED fallbackVars
    /\ UNCHANGED notQaVars

\* final_answer = synthesize_final_answer(question, [main_result] + follow_up_results)
Synthesize ==
    /\ stage = "SYNTHESIS"
    /\ synth_context' = SynthesisContext(<<main_result>> \o follow_up_results)
    /\ \E response_text \in SynthesisResponses : final_answer' = response_text
    /\ synth_calls' = synth_calls + 1
    /\ stage' = "DONE"
    /\ UNCHANGED <<driver, question, target_year, retrieved, main_result,
                   missing_info, follow_up_questions, fu_idx, follow_up_results, follow_up_marks,
                   main_calls, gap_calls>>
    /\ UNCHANGED fallbackVars
    /\ UNCHANGED notQaVars

\* The service call the request is about to make raises: the exception
\* reaches the driver's "except Exception", which reports it.
ServiceRaises ==
    /\ \/ stage \in {"RETRIEVE", "GAP_ANALYSIS", "SYNTHESIS"}
       \/ fpc \in {"first", "altgen", "alts"}
    /\ stage' = "FAILED"
    /\ final_answer' = <<"Error">>
    /\ FallbackCleared
    /\ UNCHANGED <<driver, question, target_year, retrieved, main_result,
                   missing_info, follow_up_questions, fu_idx, follow_up_results, follow_up_marks,
                   synth_context, main_calls, gap_calls, synth_calls>>
    /\ UNCHANGED notQaVars

NextQA ==
    \/ ReadQuestion \/ CliRetrieve
    \/ FirstAttempt \/ GenerateAlternatives \/ AltAttempt
    \/ MainReturns \/ GapAnalysis
    \/ FollowUpCall \/ FollowUpReturns \/ FollowUpsDone
    \/ Synthesize \/ ServiceRaises

SpecQA == InitQA /\ [][NextQA]_vars

(***************************************************************************)
(* query.py: one call of answer_sub_question, step by step.                *)
(*                                                                         *)
(* retrieve returns up to MaxHits chunks; the generation service answers   *)
(* with a text made of up to MaxAnswerTokens of the tokens below, which    *)
(* the citation pass scans character by character.                         *)
(***************************************************************************)
MaxHits == 2
MaxAnswerTokens == 3

\* A second chunk, of another document.
OtherChunk == [source |-> "report_2021.pdf", chunk_index |-> 3, year |-> 2021,
               text |-> <<"Net income was $10M in 2021.">>]

\* hits = retrieve(sub_question, k=4, target_year=target_year)
HitLists == SeqsUpTo({TheChunk, OtherChunk}, MaxHits)

\* resp.choices[0].message.content: words, markers in and out of range, a
\* marker with a leading zero, and loose brackets and digits.
AnswerTokens ==
    { <<"x">>, <<"[">>, <<"]">>, <<"1">>,
      <<"[", "0", "]">>, <<"[", "1", "]">>, <<"[", "2", "]">>, <<"[", "3", "]">>,
      <<"[", "1", "2", "]">>, <<"[", "0", "2", "]">> }
AnswerTexts == { Flatten(ts) : ts \in SeqsUpTo(AnswerTokens, MaxAnswerTokens) }

\* The sub_question of the modelled call.
AnswerQuestion == <<"Q">>

\* A variant of the test below that never takes the early return.
NoHitsNever(h) == FALSE

\* "if not hits:"
NoHits(h) == h = << >>

InitAnswer ==
    /\ PairIdle
    /\ YearIdle
    /\ ChunkIdle
    /\ RetrIdle
    /\ IngestIdle
    /\ ParseIdle
    /\ SessionIdle
    /\ driver = "none"
    /\ stage = "IDLE"
    /\ RequestIdle
    /\ FallbackIdle
    /\ apc = "call"
    /\ a_hits = << >>
    /\ a_answer = << >>
    /\ a_result = NoResult
    /\ a_gen_calls = 0

notAnswerVars == <<chunkVars, retrVars, ingestVars, orchVars, fallbackVars, parseVars,
                   sessionVars, yearVars, pairVars>>

\* answer_sub_question is called again.
AnswerCall ==
    /\ apc \in {"ret", "raised"}
    /\ apc' = "call"
    /\ a_hits' = << >>
    /\ a_answer' = << >>
    /\ a_result' = NoResult
    /\ a_gen_calls' = 0
    /\ UNCHANGED notAnswerVars

\* hits = retrieve(...); "if not hits: return {...}"
AnswerRetrieve ==
    /\ apc = "call"
    /\ \E h \in HitLists :
          /\ a_hits' = h
          /\ IF NoHits(h)
             THEN /\ a_result' = answer_sub_question(AnswerQuestion, h, << >>)
                  /\ apc' = "ret"
             ELSE /\ a_result' = a_result
                  /\ apc' = "generate"
    /\ UNCHANGED <<a_answer, a_gen_calls>>
    /\ UNCHANGED notAnswerVars

\* resp = client.chat.completions.create(...), the citation pass and the
\* return of the result.
AnswerGenerate ==
    /\ apc = "generate"
    /\ \E answer \in AnswerTexts :
          /\ a_answer' = answer
          /\ a_result' = answer_sub_question(AnswerQuestion, a_hits, answer)
    /\ a_gen_calls' = a_gen_calls + 1
    /\ apc' = "ret"
    /\ UNCHANGED a_hits
    /\ UNCHANGED notAnswerVars

\* retrieve or the generation service raises: answer_sub_question has no
\* handler, the exception leaves it.
AnswerRaises ==
    /\ apc \in {"call", "generate"}
    /\ apc' = "raised"
    /\ UNCHANGED <<a_hits, a_answer, a_result, a_gen_calls>>
    /\ UNCHANGED notAnswerVars

NextAnswer == AnswerCall \/ AnswerRetrieve \/ AnswerGenerate \/ AnswerRaises

SpecAnswer == InitAnswer /\ [][NextAnswer]_vars

(***************************************************************************)
(* query.py: the parsing of a structured response.                         *)
(*                                                                         *)
(* A response is up to MaxResponseLines lines joined by newlines, each one *)
(* of the kinds below; the two section headers are written as one piece.   *)
(***************************************************************************)
MaxResponseLines == 4

\* The lines a response is made of: the two headers (bare, and surrounded by
\* spaces), dash items (bare, indented with trailing space, and with two
\* spaces after the dash), a dash with no space after it, a dash with
\* nothing after it, an empty line, prose, a decorated header, and a header
\* with an item on the same line.
ResponseLines ==
    { <<"MISSING INFORMATION:">>,
      <<" ", "FOLLOW-UP QUESTIONS NEEDED:", " ">>,
      <<"-", " ", "x">>,
      <<" ", "-", " ", "y", " ">>,
      <<"-", " ", " ", "v">>,
      <<"-", "z">>,
      <<"-", " ">>,
      << >>,
      <<"t">>,
      <<"*", "MISSING INFORMATION:">>,
      <<"MISSING INFORMATION:", " ", "-", " ", "w">> }

\* response_text = resp.choices[0].message.content
ResponseTexts == { JoinLines(ls) : ls \in SeqsUpTo(ResponseLines, MaxResponseLines) }

InitParse ==
    /\ PairIdle
    /\ YearIdle
    /\ ChunkIdle
    /\ RetrIdle
    /\ IngestIdle
    /\ AnswerIdle
    /\ SessionIdle
    /\ driver = "none"
    /\ stage = "IDLE"
    /\ RequestIdle
    /\ FallbackIdle
    /\ ppc = "input"
    /\ p_response \in ResponseTexts
    /\ p_analysis = [missing_info |-> << >>, follow_up_questions |-> << >>]
    /\ p_items = << >>

\* The response is parsed by analyze_missing_information and by the loop of
\* generate_alternative_questions and decompose_question.
ParseResponse ==
    /\ ppc = "input"
    /\ p_analysis' = ParseAnalysis(p_response)
    /\ p_items' = ParseDashList(p_response)
    /\ ppc' = "done"
    /\ UNCHANGED p_response
    /\ UNCHANGED <<chunkVars, retrVars, ingestVars, orchVars, fallbackVars, answerVars,
                   sessionVars, yearVars, pairVars>>

NextParse == ParseResponse

SpecParse == InitParse /\ [][NextParse]_vars

(***************************************************************************)
(* query.py / streamlit_app.py: a query session and the index files.       *)
(*                                                                         *)
(* The driver checks that both files exist before it reads a question      *)
(* (query.py once, before its loop; the app at the top of every run of its *)
(* script).  A request is cut down to its first retrieve call (load_index, *)
(* load_meta, embed_query, index.search) and one generation call.  Between *)
(* two questions a file may be removed from outside.                       *)
(***************************************************************************)
MaxQuestions == 3

\* A variant of the test below that looks at the index file only.
FilesPresentIndexOnly(ix, mt) == ix

\* "if not os.path.exists(INDEX_PATH) or not os.path.exists(META_PATH)"
FilesPresent(ix, mt) == ix /\ mt

InitSession ==
    /\ PairIdle
    /\ YearIdle
    /\ ChunkIdle
    /\ RetrIdle
    /\ IngestIdle
    /\ AnswerIdle
    /\ ParseIdle
    /\ driver \in {"cli", "ui"}
    /\ stage = "IDLE"
    /\ RequestIdle
    /\ FallbackIdle
    /\ index_exists \in BOOLEAN
    /\ meta_exists \in BOOLEAN
    /\ spc = "start"
    /\ questions_read = 0
    /\ embed_calls = 0
    /\ search_calls = 0
    /\ gen_calls = 0
    /\ s_error = "none"

notSessionVars == <<chunkVars, retrVars, ingestVars, orchVars, fallbackVars, answerVars,
                    parseVars, yearVars, pairVars>>

\* The check before any question: "Index files not found ..." and exit(1)
\* (st.error and st.stop() in the app).
CheckFiles ==
    /\ spc = "start"
    /\ IF FilesPresent(index_exists, meta_exists)
       THEN spc' = "prompt" /\ s_error' = s_error
       ELSE spc' = "exit" /\ s_error' = "Index files not found"
    /\ UNCHANGED <<index_exists, meta_exists, questions_read, embed_calls,
                   search_calls, gen_calls>>
    /\ UNCHANGED notSessionVars

\* A question is entered.  The app's script runs again from the top, so its
\* check comes first; query.py is inside its loop and reads the question.
EnterQuestion ==
    /\ spc = "prompt"
    /\ questions_read < MaxQuestions
    /\ IF driver = "ui" /\ ~FilesPresent(index_exists, meta_exists)
       THEN /\ spc' = "exit"
            /\ s_error' = "Index files not found"
            /\ questions_read' = questions_read
       ELSE /\ spc' = "load"
            /\ s_error' = "none"
            /\ questions_read' = questions_read + 1
    /\ UNCHANGED <<index_exists, meta_exists, embed_calls, search_calls, gen_calls>>
    /\ UNCHANGED notSessionVars

\* retrieve: index = load_index(); meta = load_meta().  A missing file
\* raises FileNotFoundError, which the driver's "except Exception" reports.
LoadIndexAndMeta ==
    /\ spc = "load"
    /\ IF ~index_exists \/ ~meta_exists
       THEN spc' = "failed" /\ s_error' = "FileNotFoundError"
       ELSE spc' = "embed" /\ s_error' = s_error
    /\ UNCHANGED <<index_exists, meta_exists, questions_read, embed_calls,
                   search_calls, gen_calls>>
    /\ UNCHANGED notSessionVars

\* retrieve: q_emb = embed_query(query); the call answers or raises.
EmbedQuery ==
    /\ spc = "embed"
    /\ embed_calls' = embed_calls + 1
    /\ \/ spc' = "search" /\ s_error' = s_error
       \/ spc' = "failed" /\ s_error' = "service error"
    /\ UNCHANGED <<index_exists, meta_exists, questions_read, search_calls, gen_calls>>
    /\ UNCHANGED notSessionVars

\* retrieve: D, I = index.search(q_emb, search_k)
IndexSearch ==
    /\ spc = "search"
    /\ search_calls' = search_calls + 1
    /\ spc' = "generate"
    /\ UNCHANGED <<index_exists, meta_exists, questions_read, embed_calls, gen_calls,
                   s_error>>
    /\ UNCHANGED notSessionVars

\* The generation call of the request; it answers or raises.
GenerationCall ==
    /\ spc = "generate"
    /\ gen_calls' = gen_calls + 1
    /\ \/ spc' = "answered" /\ s_error' = s_error
       \/ spc' = "failed" /\ s_error' = "service error"
    /\ UNCHANGED <<index_exists, meta_exists, questions_read, embed_calls, search_calls>>
    /\ UNCHANGED notSessionVars

\* The answer or the error was shown; the driver waits for the next question.
BackToPrompt ==
    /\ spc \in {"answered", "failed"}
    /\ spc' = "prompt"
    /\ embed_calls' = 0
    /\ search_calls' = 0
    /\ gen_calls' = 0
    /\ UNCHANGED <<index_exists, meta_exists, questions_read, s_error>>
    /\ UNCHANGED notSessionVars

\* Between two questions one of the files is removed from outside.
FileRemoved ==
    /\ spc = "prompt"
    /\ \/ index_exists /\ index_exists' = FALSE /\ meta_exists' = meta_exists
       \/ meta_exists /\ meta_exists' = FALSE /\ index_exists' = index_exists
    /\ UNCHANGED <<spc, questions_read, embed_calls, search_calls, gen_calls, s_error>>
    /\ UNCHANGED notSessionVars

NextSession ==
    \/ CheckFiles \/ EnterQuestion \/ LoadIndexAndMeta \/ EmbedQuery
    \/ IndexSearch \/ GenerationCall \/ BackToPrompt \/ FileRemoved

SpecSession == InitSession /\ [][NextSession]_vars

(***************************************************************************)
(* Year detection: extract_year_from_query (query.py) and                  *)
(* extract_year_from_filename (ingest.py) applied to one text.             *)
(***************************************************************************)
MaxYearTextLen == 6

\* The characters of the modelled questions and file names: three digits
\* and a letter.
YearAlphabet == {"2", "0", "1", "x"}

YearTexts == SeqsUpTo(YearAlphabet, MaxYearTextLen)

\* extract_year_from_filename: the leftmost match of the same pattern as an
\* int, or 0.
extract_year_from_filename(filename) ==
    IF \E i \in 1..Len(filename) : YearMatchAt(filename, i)
    THEN LET i == CHOOSE k \in 1..Len(filename) :
                      /\ YearMatchAt(filename, k)
                      /\ \A j \in 1..(k - 1) : ~YearMatchAt(filename, j)
         IN  NumberOf(SubSeq(filename, i, i + 3))
    ELSE 0

InitYear ==
    /\ PairIdle
    /\ ChunkIdle
    /\ RetrIdle
    /\ IngestIdle
    /\ AnswerIdle
    /\ ParseIdle
    /\ SessionIdle
    /\ driver = "none"
    /\ stage = "IDLE"
    /\ RequestIdle
    /\ FallbackIdle
    /\ ypc = "input"
    /\ y_text \in YearTexts
    /\ y_query = None
    /\ y_filename = 0

\* Both functions are applied to the text.
DetectYear ==
    /\ ypc = "input"
    /\ y_query' = extract_year_from_query(y_text)
    /\ y_filename' = extract_year_from_filename(y_text)
    /\ ypc' = "done"
    /\ UNCHANGED y_text
    /\ UNCHANGED <<chunkVars, retrVars, ingestVars, orchVars, fallbackVars, answerVars,
                   parseVars, sessionVars, pairVars>>

NextYear == DetectYear

SpecYear == InitYear /\ [][NextYear]_vars

(***************************************************************************)
(* query.py: two calls of generate_answer side by side.  Both are given    *)
(* the same question and different retrieved_chunks, and every call to a   *)
(* service is answered alike in both.  A run is the record of the locals   *)
(* of generate_answer and of the call of answer_sub_question_with_fallback *)
(* in progress, with the service calls of its latest step.  The runs move  *)
(* in step, so their sequences of calls are equal when the calls of every  *)
(* step are.                                                               *)
(***************************************************************************)
\* The lists passed as retrieved_chunks.  The first run is given the shorter
\* one (which run is which is immaterial).
RetrievedLists == { << >>, <<TheChunk>> }

\* A call of answer_sub_question_with_fallback(q, target_year) begins.
RunFallbackStarts(st, q) ==
    [st EXCEPT !.fpc = "first", !.sub_question = q, !.result = NoResult,
               !.alternatives = << >>, !.alt_idx = 0]

\* generate_answer(q, chunks) up to its first service call: target_year is
\* extracted and the fallback-answerer is called on the question.
RunStart(q, chunks) ==
    RunFallbackStarts(
        [pc |-> "main", question |-> q, retrieved_chunks |-> chunks,
         target_year |-> extract_year_from_query(q),
         fpc |-> "none", sub_question |-> << >>, result |-> NoResult,
         alternatives |-> << >>, alt_idx |-> 0,
         main_result |-> NoResult, follow_up_questions |-> << >>, fu_idx |-> 0,
         follow_up_results |-> << >>, last_calls |-> << >>,
         final_answer |-> << >>], q)

\* A variant of the definition below that takes the chunks of the argument.
MainChunksFromArgument(st) == st.retrieved_chunks

\* main_chunks = main_result.get('chunks', [])
MainChunks(st) == st.main_result.chunks

\* The service call a run is about to make: its kind and its arguments.
PendingCall(st) ==
    CASE st.pc \in {"main", "follow"} /\ st.fpc = "first" ->
             [kind |-> "retrieve", q |-> st.sub_question, year |-> st.target_year,
              arg |-> << >>]
      [] st.pc \in {"main", "follow"} /\ st.fpc = "altgen" ->
             [kind |-> "alternatives", q |-> st.sub_question, year |-> None,
              arg |-> << >>]
      [] st.pc \in {"main", "follow"} /\ st.fpc = "alts" ->
             [kind |-> "retrieve", q |-> st.alternatives[st.alt_idx],
              year |-> st.target_year, arg |-> << >>]
      [] st.pc = "gap" ->
             [kind |-> "analysis", q |-> st.question, year |-> None,
              arg |-> <<st.main_result.answer, MainChunks(st)>>]
      [] st.pc = "synth" ->
             [kind |-> "synthesis", q |-> st.question, year |-> None,
              arg |-> SynthesisContext(<<st.main_result>> \o st.follow_up_results)]
      [] OTHER -> [kind |-> "none", q |-> << >>, year |-> None, arg |-> << >>]

\* The calls answer_sub_question makes: retrieve, and the completion over the
\* hits when there are any.
AnswerCalls(st, hits) ==
    <<PendingCall(st)>>
        \o (IF hits = << >> THEN << >>
            ELSE << [kind |-> "generate", q |-> PendingCall(st).q, year |-> None,
                     arg |-> hits] >>)

\* answer_sub_question_with_fallback returns ret: to generate_answer's main
\* attempt, or into its follow-up loop, which goes on to the next question
\* or ends.
RunFallbackReturns(st, ret) ==
    IF st.pc = "main"
    THEN [st EXCEPT !.main_result = ret, !.pc = "gap", !.fpc = "none"]
    ELSE LET st1 == [st EXCEPT !.follow_up_results = Append(@, ret),
                               !.fu_idx = @ + 1, !.fpc = "none"]
         IN  IF st1.fu_idx <= Len(st1.follow_up_questions)
             THEN RunFallbackStarts(st1, st1.follow_up_questions[st1.fu_idx])
             ELSE [st1 EXCEPT !.pc = "synth"]

\* A run makes its pending call and goes on to its next one.  r holds what
\* the services answer: hits (retrieve), answer (the answering completion),
\* alts, gap and synth (the three other completions).
RunStep(st, r) ==
    CASE st.pc \in {"main", "follow"} /\ st.fpc = "first" ->
             LET result == answer_sub_question(st.sub_question, r.hits, r.answer)
                 st1 == [st EXCEPT !.last_calls = AnswerCalls(st, r.hits),
                                   !.result = result]
             IN  IF IndicatesNoData(result.answer)
                 THEN [st1 EXCEPT !.fpc = "altgen"]
                 ELSE RunFallbackReturns(st1, result)
      [] st.pc \in {"main", "follow"} /\ st.fpc = "altgen" ->
             LET alts == ParseDashList(r.alts)
                 st1 == [st EXCEPT !.last_calls = <<PendingCall(st)>>,
                                   !.alternatives = alts]
             IN  IF alts = << >>
                 THEN RunFallbackReturns(st1, st.result)
                 ELSE [st1 EXCEPT !.fpc = "alts", !.alt_idx = 1]
      [] st.pc \in {"main", "follow"} /\ st.fpc = "alts" ->
             LET alt_question == st.alternatives[st.alt_idx]
                 alt_result == answer_sub_question(alt_question, r.hits, r.answer)
                 st1 == [st EXCEPT !.last_calls = AnswerCalls(st, r.hits)]
             IN  IF FoundData(alt_result.answer)
                 THEN RunFallbackReturns(st1,
                          [alt_result EXCEPT
                              !.question = AnnotatedQuestion(st.sub_question,
                                                             alt_question)])
                 ELSE IF st.alt_idx = Len(st.alternatives)
                 THEN RunFallbackReturns(st1, st.result)
                 ELSE [st1 EXCEPT !.alt_idx = @ + 1]
      [] st.pc = "gap" ->
             LET analysis == ParseAnalysis(r.gap)
                 st1 == [st EXCEPT !.last_calls = <<PendingCall(st)>>,
                                   !.follow_up_questions = analysis.follow_up_questions,
                                   !.fu_idx = 1]
             IN  IF analysis.follow_up_questions = << >>
                 THEN [st1 EXCEPT !.pc = "synth"]
                 ELSE RunFallbackStarts([st1 EXCEPT !.pc = "follow"],
                                        analysis.follow_up_questions[1])
      [] st.pc = "synth" ->
             [st EXCEPT !.last_calls = <<PendingCall(st)>>,
                        !.final_answer = r.synth, !.pc = "done"]
      [] OTHER -> st

\* The pending call of a run raises: generate_answer has no handler, the
\* exception leaves it and its locals are gone.
RunRaises(st) ==
    IF st.pc \in {"done", "raised"} THEN st
    ELSE [RunStart(st.question, st.retrieved_chunks) EXCEPT
              !.last_calls = <<PendingCall(st)>>, !.pc = "raised", !.fpc = "none",
              !.sub_question = << >>]

\* Some run is about to make a call of this kind.
PairNeeds(kind) == \E i \in DOMAIN g_runs : PendingCall(g_runs[i]).kind = kind

InitPair ==
    /\ YearIdle
    /\ ChunkIdle
    /\ RetrIdle
    /\ IngestIdle
    /\ AnswerIdle
    /\ ParseIdle
    /\ SessionIdle
    /\ driver = "none"
    /\ stage = "IDLE"
    /\ RequestIdle
    /\ FallbackIdle
    /\ \E q \in Questions, c1 \in RetrievedLists, c2 \in RetrievedLists :
          /\ Len(c1) < Len(c2)
          /\ g_runs = <<RunStart(q, c1), RunStart(q, c2)>>

\* Both runs make their next service call, and the services answer both
\* alike.
PairCall ==
    /\ \E i \in DOMAIN g_runs : g_runs[i].pc \notin {"done", "raised"}
    /\ \E hits \in (IF PairNeeds("retrieve") THEN RetrieveOutcomes ELSE {<< >>}) :
       \E answer \in (IF hits # << >> THEN AnswerResponses ELSE {<< >>}),
          alts \in (IF PairNeeds("alternatives") THEN AltResponses ELSE {<< >>}),
          gap \in (IF PairNeeds("analysis") THEN GapResponses ELSE {<< >>}),
          synth \in (IF PairNeeds("synthesis") THEN SynthesisResponses ELSE {<< >>}) :
          g_runs' = [i \in DOMAIN g_runs |->
                        RunStep(g_runs[i],
                                [hits |-> hits, answer |-> answer, alts |-> alts,
                                 gap |-> gap, synth |-> synth])]
    /\ UNCHANGED <<chunkVars, retrVars, ingestVars, orchVars, fallbackVars, answerVars,
                   parseVars, sessionVars, yearVars>>

\* The next service call raises, in both runs.
PairRaises ==
    /\ \E i \in DOMAIN g_runs : g_runs[i].pc \notin {"done", "raised"}
    /\ g_runs' = [i \in DOMAIN g_runs |-> RunRaises(g_runs[i])]
    /\ UNCHANGED <<chunkVars, retrVars, ingestVars, orchVars, fallbackVars, answerVars,
                   parseVars, sessionVars, yearVars>>

NextPair == PairCall \/ PairRaises

SpecPair == InitPair /\ [][NextPair]_vars

(***************************************************************************)
(* Claims about the chunker.                                               *)
(***************************************************************************)
\* The non-whitespace characters of a text, in order.
NonWs(s) == SelectSeq(s, LAMBDA c : ~IsSpace(c))

\* C8: for every non-empty text (chunk_size >= 1, 0 <= overlap < chunk_size)
\* chunk_by_sections returns at least one chunk, and every chunk it returns
\* has at most 2 x chunk_size characters.
C8_ChunkLengthBounded ==
    (cpc = "done" /\ ctext # <<>>) =>
        /\ Len(cresult) >= 1
        /\ \A i \in 1..Len(cresult) : Len(cresult[i]) <= 2 * csize

\* A run in which the paragraph pass produced an oversize chunk, which the
\* oversize pass had to re-split.
C8_Witness ==
    /\ cpc = "done"
    /\ ctext # <<>>
    /\ \E i \in 1..Len(SectionChunks(ctext, csize, coverlap)) :
           Len(SectionChunks(ctext, csize, coverlap)[i]) > 2 * csize

\* The positions of t that can be reached from a position of S by appending a
\* suffix of w (possibly empty) that matches t there.
CoverStep(t, w, S) ==
    UNION { { p + j : j \in { k \in 0..Min(Len(w), Len(t) - p) :
                                 SubSeq(t, p + 1, p + k)
                                     = SubSeq(w, Len(w) - k + 1, Len(w)) } }
            : p \in S }

RECURSIVE CoverEnds(_, _, _)
CoverEnds(t, chunks, S) ==
    IF chunks = <<>> THEN S
    ELSE CoverEnds(t, Tail(chunks), CoverStep(t, NonWs(Head(chunks)), S))

\* C9: chunk_by_sections loses no content.  Every chunk is a duplicated lead
\* (the overlap carried over from what precedes it) followed by new content:
\* dropping a lead from each chunk and concatenating what remains gives the
\* input's non-whitespace characters, all of them and in the original order.
C9_NoContentLost ==
    cpc = "done" =>
        Len(NonWs(ctext)) \in CoverEnds(NonWs(ctext), cresult, {0})

\* A run with several chunks in which an overlap was duplicated, so the
\* plain concatenation of the chunks differs from the input.
C9_Witness ==
    /\ cpc = "done"
    /\ coverlap > 0
    /\ Len(cresult) >= 2
    /\ NonWs(Flatten(cresult)) # NonWs(ctext)
    /\ Len(NonWs(ctext)) \in CoverEnds(NonWs(ctext), cresult, {0})

(***************************************************************************)
(* Claims about the retriever.                                             *)
(***************************************************************************)
\* The positions of I[0] that hold a row with a metadata entry.
SearchedWithMeta == { p \in 1..Len(rI) : Str(rI[p]) \in DOMAIN rmeta }

\* Those whose chunk's year is within 1 of the target year.
SearchedNearTarget ==
    { p \in SearchedWithMeta : Abs(rmeta[Str(rI[p])].year - rtarget) <= 1 }

\* The position of a returned chunk in I[0].
RankOf(chunk) == CHOOSE p \in 1..Len(rI) : rI[p] = chunk.chunk_index

NoDuplicates(seq) == \A i, j \in 1..Len(seq) : seq[i] = seq[j] => i = j

\* C6: with a target year Y, retrieve returns only chunks whose year is within
\* 1 of Y, each a distinct searched neighbour; when fewer than k such chunks
\* are among the searched neighbours, fewer than k results are returned.
C6_YearFilterNeverPadded ==
    (rpc = "done" /\ rtarget # None) =>
        /\ \A i \in 1..Len(rret) :
              /\ Abs(rret[i].year - rtarget) <= 1
              /\ \E p \in SearchedNearTarget : rmeta[Str(rI[p])] = rret[i]
        /\ NoDuplicates(rret)
        /\ Cardinality(SearchedNearTarget) < rk => Len(rret) < rk

\* A year-filtered call that found a near-year chunk, but fewer than k of them,
\* while a searched neighbour of another year was there to pad with.
C6_Witness ==
    /\ rpc = "done"
    /\ rtarget # None
    /\ Len(rret) >= 1
    /\ Len(rret) < rk
    /\ SearchedWithMeta \ SearchedNearTarget # {}

\* C7: retrieve returns at most k results; with no target year they are in
\* the index's rank order, so in non-decreasing distance to the query.
C7_AtMostKInRankOrder ==
    rpc = "done" =>
        /\ Len(rret) <= rk
        /\ rtarget = None =>
              \A i, j \in 1..Len(rret) : i < j =>
                  /\ RankOf(rret[i]) < RankOf(rret[j])
                  /\ rdist[rret[i].chunk_index] <= rdist[rret[j].chunk_index]

\* An unfiltered call that returned two chunks at different distances, with
\* more neighbours in the index than were asked for.
C7_Witness ==
    /\ rpc = "done"
    /\ rtarget = None
    /\ Len(rret) = 2
    /\ rdist[rret[1].chunk_index] < rdist[rret[2].chunk_index]
    /\ Cardinality(DOMAIN rmeta) > rk

(***************************************************************************)
(* Claims about the ingestion run.                                         *)
(***************************************************************************)
\* C5: after every run that saves an index, with documents skipped and
\* batches failed or not, the chunks, the index vectors and the metadata
\* entries are equally many, the metadata keys are the decimal strings
\* 0..N-1, and key i describes the chunk whose vector (its embedding, or the
\* zero vector substituted for it) is index row i.
C5_IndexMetadataParity ==
    ipc = "done" =>
        LET N == Len(all_chunks)
        IN  /\ Len(index_file) = N
            /\ Cardinality(DOMAIN meta_file) = N
            /\ DOMAIN meta_file = {Str(i) : i \in 0..(N - 1)}
            /\ \A i \in 0..(N - 1) :
                  LET c == all_chunks[i + 1]
                  IN  /\ meta_file[Str(i)].source = DocName(c[1])
                      /\ meta_file[Str(i)].chunk_index = c[2] - 1
                      /\ meta_file[Str(i)].text = c
                      /\ index_file[i + 1] \in {Embedding(c), ZeroVector}
                      /\ index_file[i + 1] = ZeroVector
                             <=> (\E b \in failed_batches : b <= i /\ i < b + BatchSize)

\* A saved run with a skipped document, a failed batch and a successful one,
\* and chunks from two documents.
C5_Witness ==
    /\ ipc = "done"
    /\ skipped # {}
    /\ failed_batches # {}
    /\ \E i \in 1..Len(index_file) : index_file[i] # ZeroVector
    /\ \E i, j \in 1..Len(all_chunks) : all_chunks[i][1] # all_chunks[j][1]

(***************************************************************************)
(* Claims about the fallback-answerer and the orchestrator.                *)
(***************************************************************************)
\* An answer text that carries one of the two failure sentinels.
HasFailureSentinel(answer) ==
    \/ Contains(answer, <<"I don't know">>)
    \/ Contains(answer, <<"No relevant information found">>)

\* C1: whenever gap analysis yields zero follow-up questions, no synthesis
\* call is made and the final answer is exactly the main attempt's answer.
C1_ShortCircuitOnNoFollowUps ==
    (stage = "DONE" /\ follow_up_questions = << >>) =>
        /\ synth_calls = 0
        /\ follow_up_results = << >>
        /\ final_answer = main_result.answer

\* C2: when the first answer carries a failure sentinel, the alternatives are
\* tried in the order they were returned, no alternative is tried after one
\* that succeeded, and the call returns that first successful alternative's
\* result with its question rewritten to name the original question and the
\* alternative used.
C2_FirstSuccessfulAlternative ==
    (Len(f_attempts) >= 1 /\ HasFailureSentinel(f_attempts[1].answer)) =>
        LET n == Len(f_attempts)
        IN  /\ n <= 1 + Len(alternatives)
            /\ \A j \in 2..n :
                  /\ f_attempts[j].question = alternatives[j - 1]
                  /\ j < n => HasFailureSentinel(f_attempts[j].answer)
            /\ (n >= 2 /\ ~HasFailureSentinel(f_attempts[n].answer)) =>
                  /\ fpc = "ret"
                  /\ f_ret = [question |-> sub_question \o <<" (tried alternative: ">>
                                               \o alternatives[n - 1] \o <<")">>,
                              answer |-> f_attempts[n].answer,
                              chunks |-> f_attempts[n].chunks,
                              sources |-> f_attempts[n].sources]

\* The first alternative succeeded after a failed first answer, and the second
\* alternative was never tried.
C2_Witness ==
    /\ fpc = "ret"
    /\ Len(alternatives) = 2
    /\ Len(f_attempts) = 2
    /\ HasFailureSentinel(f_attempts[1].answer)
    /\ ~HasFailureSentinel(f_attempts[2].answer)
    /\ f_ret.answer = f_attempts[2].answer
    /\ f_ret.question # alternatives[1]

\* C3: if the first answer fails and every alternative fails too, or none is
\* produced, the call returns the first result unchanged; when no phrasing
\* retrieved a chunk, that is the "No relevant information found." result
\* with no chunks and no sources.
C3_AllFailReturnsOriginal ==
    (/\ fpc = "ret"
     /\ \A j \in 1..Len(f_attempts) : HasFailureSentinel(f_attempts[j].answer)) =>
        /\ Len(f_attempts) = 1 + Len(alternatives)
        /\ f_ret = f_attempts[1]
        /\ f_ret.question = sub_question
        /\ HasFailureSentinel(f_ret.answer)
        /\ (\A j \in 1..Len(f_attempts) : f_attempts[j].chunks = << >>) =>
              /\ f_ret.answer = <<"No relevant information found", ".">>
              /\ f_ret.chunks = << >>
              /\ f_ret.sources = << >>

\* The first answer was "I don't know" over retrieved chunks, two alternatives
\* were tried and both failed.
C3_Witness ==
    /\ fpc = "ret"
    /\ Len(alternatives) = 2
    /\ Len(f_attempts) = 3
    /\ \A j \in 1..3 : HasFailureSentinel(f_attempts[j].answer)
    /\ f_attempts[1].chunks # << >>
    /\ f_attempts[3].chunks = << >>
    /\ f_ret = f_attempts[1]

\* C4: alternatives are requested exactly when the first answer carries a
\* failure sentinel; otherwise the call makes one attempt, no
\* alternative-generation call, and returns the first result unchanged.
C4_AlternativesIffSentinel ==
    (fpc \in {"altgen", "alts", "ret"}) =>
        /\ Len(f_attempts) >= 1
        /\ altgen_calls <= 1
        /\ HasFailureSentinel(f_attempts[1].answer) =>
              (altgen_calls = 1 <=> fpc \in {"alts", "ret"})
        /\ ~HasFailureSentinel(f_attempts[1].answer) =>
              /\ fpc = "ret"
              /\ altgen_calls = 0
              /\ Len(f_attempts) = 1
              /\ f_ret = f_attempts[1]

\* The first attempt found nothing to retrieve: its answer is the "No relevant
\* information found." sentinel, and alternatives were requested.
C4_Witness ==
    /\ fpc = "alts"
    /\ Len(f_attempts) = 1
    /\ f_attempts[1].chunks = << >>
    /\ Contains(f_attempts[1].answer, <<"No relevant information found">>)
    /\ altgen_calls = 1

\* The position of a stage in the order of the pipeline.
StageRank(s) ==
    CASE s = "IDLE" -> 0
      [] s = "RETRIEVE" -> 0
      [] s = "MAIN_ATTEMPT" -> 1
      [] s = "GAP_ANALYSIS" -> 2
      [] s = "FOLLOW_UP" -> 3
      [] s = "SYNTHESIS" -> 4
      [] s = "DONE" -> 5
      [] s = "FAILED" -> 5

\* C10: within a request the stage never moves back in the order MAIN_ATTEMPT,
\* GAP_ANALYSIS, FOLLOW_UP, SYNTHESIS, DONE; the main attempt, gap analysis
\* and synthesis each run at most once per request; and no step of the
\* follow-up stage makes a gap-analysis call.
C10_StagesOnlyAdvance ==
    [][ /\ stage \notin {"IDLE", "DONE", "FAILED"} =>
              StageRank(stage') >= StageRank(stage)
        /\ main_calls' <= 1 /\ gap_calls' <= 1 /\ synth_calls' <= 1
        /\ stage = "FOLLOW_UP" => gap_calls' = gap_calls
        /\ stage' = "MAIN_ATTEMPT" => gap_calls' = 0 /\ synth_calls' = 0
        /\ stage' = "SYNTHESIS" => main_calls' = 1 /\ gap_calls' = 1
      ]_vars

\* A request that answered two follow-up questions and was synthesized.
C10_Witness ==
    /\ stage = "DONE"
    /\ Len(follow_up_results) = 2
    /\ main_calls = 1 /\ gap_calls = 1 /\ synth_calls = 1

(***************************************************************************)
(* Claims about the follow-up stage and synthesis.                         *)
(***************************************************************************)
\* The years the calls made so far in the follow-up stage were given, and the
\* questions they were asked, agree with the request's list and target year.
FollowUpCallsInOrder ==
    (stage = "FOLLOW_UP") =>
        /\ fu_idx = Len(follow_up_results) + 1
        /\ fpc # "none" =>
              /\ sub_question = follow_up_questions[fu_idx]
              /\ f_year = target_year
              /\ \A j \in 1..Len(f_years) : f_years[j] = target_year

\* C11: the follow-up calls are independent: a follow-up call that raises does
\* not prevent the remaining follow-up questions from being answered, so a
\* request never fails while questions after the current one are unanswered.
C11_FollowUpFailureIsolated ==
    (stage = "FAILED") => ~(fu_idx >= 1 /\ fu_idx < Len(follow_up_questions))

\* The part of a result that synthesis is given.
ContextItemOf(result) ==
    [question |-> result.question, answer |-> result.answer,
     sources |-> result.sources]

\* C12: when synthesis has run, exactly one synthesis call was made, and its
\* context holds the main result first and then the result of every follow-up
\* question in the order the questions were asked, each with its question,
\* answer and sources.
C12_SynthesisContextComplete ==
    (synth_calls >= 1) =>
        /\ synth_calls = 1
        /\ stage = "DONE"
        /\ Len(follow_up_results) = Len(follow_up_questions)
        /\ Len(synth_context) = 1 + Len(follow_up_questions)
        /\ synth_context[1] = ContextItemOf(main_result)
        /\ StartsWith(main_result.question, question)
        /\ \A j \in 1..Len(follow_up_questions) :
              /\ synth_context[j + 1] = ContextItemOf(follow_up_results[j])
              /\ StartsWith(follow_up_results[j].question, follow_up_questions[j])

\* Synthesis ran over a main result and two follow-up results that differ.
C12_Witness ==
    /\ stage = "DONE"
    /\ synth_calls = 1
    /\ Len(synth_context) = 3
    /\ synth_context[1].sources # << >>
    /\ synth_context[2].answer # synth_context[3].answer

(***************************************************************************)
(* Claims about failures during ingestion.                                 *)
(***************************************************************************)
\* The offset at which the batch holding the p-th text (1-based) starts.
BatchStartOf(p) == ((p - 1) \div BatchSize) * BatchSize

\* C13: when an embedding batch call fails, each text of that batch gets
\* exactly one zero vector at its own position, the texts of every other
\* batch keep their own vectors in order, and the run goes on: it leaves the
\* embedding loop only with one vector per chunk.
C13_FailedBatchZeroFilled ==
    /\ Len(all_embeddings) = Min(embed_i, Len(all_chunks))
    /\ \A b \in failed_batches : b < embed_i /\ b % BatchSize = 0
    /\ \A p \in 1..Len(all_embeddings) :
          all_embeddings[p] = IF BatchStartOf(p) \in failed_batches
                              THEN [zero |-> TRUE, of |-> <<0, 0>>]
                              ELSE [zero |-> FALSE, of |-> all_chunks[p]]
    /\ (failed_batches # {} /\ ipc # "embed") =>
          /\ ipc \in {"build", "done", "exit1"}
          /\ Len(all_embeddings) = Len(all_chunks)

\* The second of three batches failed and the run saved its index.
C13_Witness ==
    /\ ipc = "done"
    /\ Len(all_chunks) > 2 * BatchSize
    /\ failed_batches = {BatchSize}
    /\ Len(index_file) = Len(all_chunks)
    /\ index_file[BatchSize].zero = FALSE
    /\ index_file[BatchSize + 1].zero = TRUE
    /\ index_file[2 * BatchSize + 1].zero = FALSE

\* C14: if every embedding batch of the corpus fails, the run is fatal: it
\* never reports success with an index made only of substituted zero vectors.
C14_AllBatchesFailedIsFatal ==
    (ipc = "done") => \E p \in 1..Len(index_file) : ~index_file[p].zero

\* The documents met so far by the loop over pdf_files.
DocsSeen == {pdf_files[j] : j \in 1..Min(idoc - 1, Len(pdf_files))}

\* C15: a document whose extraction fails contributes no chunk, no id and no
\* metadata record; the chunks of the other documents carry the ids 0, 1, 2,
\* ... in corpus order, without gap or repetition; and the run leaves the
\* document loop for exit(1) only when no chunk at all was produced.
C15_FailedDocumentSkipped ==
    /\ skipped \subseteq DocsSeen
    /\ \A i \in 1..Len(all_chunks) : all_chunks[i][1] \in DocsSeen \ skipped
    /\ Len(metadata) = Len(all_chunks)
    /\ id_counter = Len(metadata)
    /\ \A i \in 1..Len(metadata) :
          /\ metadata[i].id = Str(i - 1)
          /\ metadata[i].source = DocName(all_chunks[i][1])
          /\ metadata[i].chunk_index = all_chunks[i][2] - 1
          /\ \A j \in 1..Len(metadata) :
                (i < j) => all_chunks[i][1] <= all_chunks[j][1]
    /\ (ipc \in {"embed", "build", "done"}) => all_chunks # << >>
    /\ (ipc = "exit1") =>
          (all_chunks = << >> \/ Len(all_embeddings) = Len(all_chunks))

\* The second of three documents failed; the first and the third were
\* ingested and saved with ids that run on across the gap.
C15_Witness ==
    /\ ipc = "done"
    /\ Len(pdf_files) = 3
    /\ skipped = {2}
    /\ Len(metadata) = 4
    /\ metadata[2].source = DocName(1) /\ metadata[2].id = "1"
    /\ metadata[3].source = DocName(3) /\ metadata[3].id = "2"
    /\ DOMAIN meta_file = {"0", "1", "2", "3"}

(***************************************************************************)
(* Claims about answer_sub_question.                                       *)
(***************************************************************************)
\* C16: when retrieval returns no chunk, answer_sub_question returns the
\* "No relevant information found." result with no chunks and no sources,
\* makes no call to the generation service, and reaches no point at which it
\* could raise.
C16_NoHitsSentinelWithoutGeneration ==
    /\ (apc = "ret" /\ a_hits = << >>) =>
          /\ a_result = [question |-> <<"Q">>,
                         answer |-> <<"No relevant information found", ".">>,
                         chunks |-> << >>,
                         sources |-> << >>]
          /\ a_gen_calls = 0
    /\ (apc = "generate" \/ a_gen_calls >= 1) => a_hits # << >>

\* The call returned after a retrieval with no hits.
C16_Witness ==
    /\ apc = "ret"
    /\ a_hits = << >>
    /\ a_result.answer = <<"No relevant information found", ".">>
    /\ a_gen_calls = 0

\* A bracketed numeric marker starts at position i of text s and ends at e.
MarkerAt(s, i, e) ==
    /\ i >= 1 /\ e <= Len(s) /\ e > i + 1
    /\ s[i] = "[" /\ s[e] = "]"
    /\ \A j \in (i + 1)..(e - 1) : s[j] \in {"0", "1", "2", "3", "4", "5", "6", "7", "8", "9"}

\* The number a run of decimal digits denotes.
RECURSIVE DecimalValue(_, _)
DecimalValue(ds, acc) ==
    IF ds = << >> THEN acc
    ELSE DecimalValue(Tail(ds), 10 * acc + (CHOOSE d \in 0..9 : ToString(d) = Head(ds)))

\* The markers of s whose number lies in 1..count, as <<start, number>> pairs.
MarkersInRange(s, count) ==
    { m \in (1..Len(s)) \X (1..count) :
        \E e \in 1..Len(s) :
            MarkerAt(s, m[1], e) /\ DecimalValue(SubSeq(s, m[1] + 1, e - 1), 0) = m[2] }

\* C17: answer_sub_question emits one citation for each bracketed numeric
\* marker of the answer whose number n lies in 1..number of retrieved chunks,
\* in the order of the markers, naming the source and chunk_index of the n-th
\* retrieved chunk; the other markers give no citation and no error.
C17_CitationsResolveInRange ==
    (apc = "ret" /\ a_hits # << >>) =>
        LET M == MarkersInRange(a_answer, Len(a_hits))
        IN  /\ a_gen_calls = 1
            /\ a_result.answer = a_answer
            /\ a_result.chunks = a_hits
            /\ Len(a_result.sources) = Cardinality(M)
            /\ \A m \in M :
                  LET k == Cardinality({x \in M : x[1] <= m[1]})
                  IN  a_result.sources[k] =
                          <<"[", ToString(m[2]), "] ", a_hits[m[2]].source,
                            ", chunk ", ToString(a_hits[m[2]].chunk_index)>>

\* The answer cites chunk 3 of two, which is dropped, and then chunk 2.
C17_Witness ==
    /\ apc = "ret"
    /\ a_hits = <<TheChunk, OtherChunk>>
    /\ a_answer = <<"[", "3", "]", "[", "2", "]">>
    /\ Len(a_result.sources) = 1

(***************************************************************************)
(* Claims about the parsing of structured responses.                       *)
(***************************************************************************)
\* The position of the n-th newline of s; 0 for n = 0, Len(s) + 1 past the last.
NewlineNo(s, n) ==
    LET NL == {i \in 1..Len(s) : s[i] = "\n"}
    IN  IF n = 0 THEN 0
        ELSE IF n > Cardinality(NL) THEN Len(s) + 1
        ELSE CHOOSE i \in NL : Cardinality({j \in NL : j <= i}) = n

LineCount(s) == Cardinality({i \in 1..Len(s) : s[i] = "\n"}) + 1

\* The n-th line of s, without the whitespace around it.
TrimmedLine(s, n) ==
    LET raw == SubSeq(s, NewlineNo(s, n - 1) + 1, NewlineNo(s, n) - 1)
        ink == {i \in 1..Len(raw) : raw[i] \notin {" ", "\n"}}
    IN  IF ink = {} THEN << >>
        ELSE SubSeq(raw, CHOOSE i \in ink : \A j \in ink : i <= j,
                         CHOOSE i \in ink : \A j \in ink : j <= i)

\* The section a trimmed line opens, "none" when it is not a header.
HeaderOf(line) ==
    IF line # << >> /\ line[1] = "MISSING INFORMATION:" THEN "missing"
    ELSE IF line # << >> /\ line[1] = "FOLLOW-UP QUESTIONS NEEDED:" THEN "questions"
    ELSE "none"

\* The section in force at line n: that of the last header above it.
SectionAt(s, n) ==
    LET hs == {j \in 1..(n - 1) : HeaderOf(TrimmedLine(s, j)) # "none"}
    IN  IF hs = {} THEN "none"
        ELSE HeaderOf(TrimmedLine(s, CHOOSE j \in hs : \A h \in hs : h <= j))

IsItemLine(line) == Len(line) >= 2 /\ line[1] = "-" /\ line[2] = " "

\* The text of the items on the lines N of s, in line order.
ItemsOn(s, N) ==
    [k \in 1..Cardinality(N) |->
        LET n == CHOOSE m \in N : Cardinality({j \in N : j <= m}) = k
            line == TrimmedLine(s, n)
            ink == {i \in 3..Len(line) : line[i] \notin {" ", "\n"}}
        IN  IF ink = {} THEN << >>
            ELSE SubSeq(line, CHOOSE i \in ink : \A j \in ink : i <= j, Len(line))]

\* C18: parsing always returns. For gap analysis every '- ' item goes to the
\* missing-information list or to the follow-up list according to the last
\* section header above it, items above every header are dropped, and a
\* response without a header yields two empty lists; the decomposition and
\* alternative-phrasing parse returns the '- ' lines, in order.
C18_StructuredParseTotal ==
    (ppc = "done") =>
        LET s == p_response
            items == {n \in 1..LineCount(s) : IsItemLine(TrimmedLine(s, n))}
        IN  /\ p_items = ItemsOn(s, items)
            /\ p_analysis.missing_info =
                   ItemsOn(s, {n \in items : SectionAt(s, n) = "missing"})
            /\ p_analysis.follow_up_questions =
                   ItemsOn(s, {n \in items : SectionAt(s, n) = "questions"})
            /\ (\A n \in 1..LineCount(s) : HeaderOf(TrimmedLine(s, n)) = "none") =>
                   /\ p_analysis.missing_info = << >>
                   /\ p_analysis.follow_up_questions = << >>

\* An item above every header, the follow-up header, an indented item and a
\* dash with no space after it: only the indented item is a follow-up
\* question.
C18_Witness ==
    /\ ppc = "done"
    /\ p_response = <<"-", " ", "x", "\n",
                      " ", "FOLLOW-UP QUESTIONS NEEDED:", " ", "\n",
                      " ", "-", " ", "y", " ", "\n",
                      "-", "z">>
    /\ p_analysis = [missing_info |-> << >>, follow_up_questions |-> << <<"y">> >>]
    /\ p_items = << <<"x">>, <<"y">> >>

(***************************************************************************)
(* Claims about the driver.                                                *)
(***************************************************************************)
\* C19: when a stage of a request raises, the driver reports one error for
\* that question, nothing of the request goes on running, and the session
\* reads the next question.
C19_FailedRequestKeepsSession ==
    (stage = "FAILED") =>
        /\ final_answer = <<"Error">>
        /\ fpc = "none"
        /\ synth_calls = 0
        /\ ENABLED ReadQuestion

\* A request failed in its follow-up stage, after one follow-up was answered.
C19_Witness ==
    /\ stage = "FAILED"
    /\ final_answer = <<"Error">>
    /\ gap_calls = 1
    /\ Len(follow_up_questions) = 2
    /\ Len(follow_up_results) = 1

\* C20: with the index file or the metadata file absent, the session stops
\* at its check, before a question is read and before any embedding, search
\* or generation call; and retrieve raises a file-not-found error before it
\* makes any such call.  No embedding, search or generation call is ever
\* made while a file is absent.
C20_MissingFilesReportedFirst ==
    [][ /\ (spc = "start" /\ ~(index_exists /\ meta_exists)) =>
              (spc' = "exit" /\ questions_read' = 0)
        /\ (spc' = "exit") =>
              /\ ~(index_exists /\ meta_exists)
              /\ s_error' = "Index files not found"
              /\ questions_read' = questions_read
              /\ embed_calls' = 0 /\ search_calls' = 0 /\ gen_calls' = 0
        /\ (spc = "load" /\ ~(index_exists /\ meta_exists)) =>
              /\ spc' = "failed"
              /\ s_error' = "FileNotFoundError"
              /\ embed_calls' = 0 /\ search_calls' = 0 /\ gen_calls' = 0
        /\ (\/ embed_calls' > embed_calls
            \/ search_calls' > search_calls
            \/ gen_calls' > gen_calls) => (index_exists /\ meta_exists)
      ]_vars

\* In a session of query.py the metadata file went missing after the first
\* question; the retrieve call of the second question raised before any call.
C20_Witness ==
    /\ driver = "cli"
    /\ spc = "failed"
    /\ s_error = "FileNotFoundError"
    /\ index_exists /\ ~meta_exists
    /\ questions_read = 2
    /\ embed_calls = 0 /\ search_calls = 0 /\ gen_calls = 0

(***************************************************************************)
(* Claims about what the driver shows and how much work a request does.    *)
(***************************************************************************)
\* C21: no failed sub-answer is shown as a success: a follow-up result whose
\* answer carries a failure sentinel is never marked as having found
\* information.
C21_FailedFollowUpNotMarkedFound ==
    \A j \in 1..Len(follow_up_results) :
        HasFailureSentinel(follow_up_results[j].answer) =>
            follow_up_marks[j] # "Found missing information"

\* C22: whatever the generation service returns, a sub-question is tried with
\* at most 3 alternative phrasings after its first attempt, and at most 4
\* follow-up questions are answered per request.
C22_WorkBoundedByConstants ==
    /\ Len(f_attempts) <= 1 + 3
    /\ Len(follow_up_results) <= 4

(***************************************************************************)
(* Further claims about the retriever.                                     *)
(***************************************************************************)
\* The positions of I[0] whose neighbour the loop accepts: it has a metadata
\* entry and, when a target year is set, a year within 1 of it.
AcceptedPositions ==
    { p \in 1..Len(rI) :
        /\ Str(rI[p]) \in DOMAIN rmeta
        /\ rtarget # None => Abs(rmeta[Str(rI[p])].year - rtarget) <= 1 }

\* The n-th smallest element of a set of positions.
NthOf(P, n) == CHOOSE p \in P : Cardinality({x \in P : x <= p}) = n

\* C23: retrieve searches 3k neighbours with a target year and k without,
\* returns the first min(k, number accepted) accepted neighbours in rank
\* order, neighbours without a metadata entry being skipped, and looks at no
\* neighbour beyond the one that made k.
C23_FirstKAcceptedInRankOrder ==
    (rpc = "done") =>
        LET A == AcceptedPositions
            n == IF Cardinality(A) < rk THEN Cardinality(A) ELSE rk
        IN  /\ Len(rI) = IF rtarget # None THEN 3 * rk ELSE rk
            /\ Len(rret) = n
            /\ \A i \in 1..n : rret[i] = rmeta[Str(rI[NthOf(A, i)])]
            /\ rpos - 1 = IF Cardinality(A) >= rk THEN NthOf(A, rk) ELSE Len(rI)

\* A year-filtered call whose nearest neighbour has no metadata entry and
\* whose walk stopped, with k accepted, before the end of the 3k neighbours.
C23_Witness ==
    /\ rpc = "done"
    /\ rtarget # None
    /\ Len(rI) = 3 * rk
    /\ Str(rI[1]) \notin DOMAIN rmeta
    /\ Len(rret) = rk
    /\ rpos - 1 < Len(rI)


(***************************************************************************)
(* Further claims about the chunker.                                       *)
(***************************************************************************)
\* The buffer (current_chunk) of the paragraph loop of the finished call
\* before its n-th paragraph is read, and after it.
BufferBefore(n) ==
    ParagraphLoop([chunks |-> <<>>, current_chunk |-> <<>>],
                  SubSeq(SplitParagraphs(ctext), 1, n - 1), csize, coverlap).current_chunk

BufferAfter(n) ==
    ParagraphLoop([chunks |-> <<>>, current_chunk |-> <<>>],
                  SubSeq(SplitParagraphs(ctext), 1, n), csize, coverlap).current_chunk

\* The n-th paragraph closes the buffer: it is not blank, the buffer is not
\* empty, and appending the paragraph would exceed chunk_size.
ClosesChunk(n) ==
    /\ Strip(SplitParagraphs(ctext)[n]) # <<>>
    /\ BufferBefore(n) # <<>>
    /\ Len(BufferBefore(n)) + Len(Strip(SplitParagraphs(ctext)[n])) > csize

\* The last m characters of s, for 0 <= m <= Len(s).
Trailing(s, m) == [i \in 1..m |-> s[Len(s) - m + i]]

\* C24: when a paragraph closes the buffer, the next buffer is the trailing
\* min(overlap, length of the closed buffer) characters of the closed buffer,
\* a blank line, and the new paragraph; with overlap = 0 nothing is carried.
C24_CarriedPrefixIsOverlap ==
    cpc = "done" =>
        \A n \in 1..Len(SplitParagraphs(ctext)) :
            ClosesChunk(n) =>
                BufferAfter(n) =
                    Trailing(BufferBefore(n), Min(coverlap, Len(BufferBefore(n))))
                        \o <<"\n", "\n">> \o Strip(SplitParagraphs(ctext)[n])


\* The text holds nothing but whitespace, so no paragraph of it survives
\* strip() and the paragraph pass produces no chunk.
OnlyWhitespace(s) == \A i \in 1..Len(s) : IsSpace(s[i])

\* The windows of fixed-width windowing over s: window i starts at
\* (i - 1) * (size - overlap) and holds at most size characters, stripped.
WindowCount(s, size, overlap) ==
    (Len(s) + (size - overlap) - 1) \div (size - overlap)

Windows(s, size, overlap) ==
    [i \in 1..WindowCount(s, size, overlap) |->
        Strip(SubSeq(s, (i - 1) * (size - overlap) + 1,
                     Min((i - 1) * (size - overlap) + size, Len(s))))]

\* C25: chunk_by_sections returns zero chunks for the empty text, and when
\* the paragraph pass produces no chunk at all it returns what fixed-width
\* windowing returns for the whole text.
C25_EmptyAndFallback ==
    cpc = "done" =>
        /\ ctext = <<>> => cresult = <<>>
        /\ OnlyWhitespace(ctext) => cresult = Windows(ctext, csize, coverlap)

\* A finished call on a text of whitespace only that is longer than one
\* window: the fall-back returned several windows.
C25_Witness ==
    /\ cpc = "done"
    /\ ctext # <<>>
    /\ OnlyWhitespace(ctext)
    /\ SectionChunks(ctext, csize, coverlap) = <<>>
    /\ Len(cresult) >= 2


(***************************************************************************)
(* Claims about year detection.                                            *)
(***************************************************************************)
\* A 4-digit token beginning with "20" starts at position i of t: the four
\* characters are 2, 0 and two digits, and no digit stands next to them.
YearTokenAt(t, i) ==
    /\ i + 3 <= Len(t)
    /\ t[i] = "2" /\ t[i + 1] = "0"
    /\ t[i + 2] \in {"0", "1", "2", "3", "4", "5", "6", "7", "8", "9"}
    /\ t[i + 3] \in {"0", "1", "2", "3", "4", "5", "6", "7", "8", "9"}
    /\ i > 1 => t[i - 1] \notin {"0", "1", "2", "3", "4", "5", "6", "7", "8", "9"}
    /\ i + 4 <= Len(t) =>
           t[i + 4] \notin {"0", "1", "2", "3", "4", "5", "6", "7", "8", "9"}

YearTokens(t) == { i \in 1..Len(t) : YearTokenAt(t, i) }

\* The year a token at position i spells.
TokenYear(t, i) ==
    2000 + 10 * (CHOOSE d \in 0..9 : Str(d) = t[i + 2])
         + (CHOOSE d \in 0..9 : Str(d) = t[i + 3])

FirstToken(t) == CHOOSE i \in YearTokens(t) : \A j \in YearTokens(t) : i <= j

\* C26: year detection returns the first 4-digit token beginning with "20":
\* for a question that year or none, for a file name that year or 0; a 20dd
\* sequence inside a longer run of digits is no token and sets no year.
C26_YearIsFirstToken ==
    ypc = "done" =>
        IF YearTokens(y_text) = {}
        THEN y_query = None /\ y_filename = 0
        ELSE /\ y_query = TokenYear(y_text, FirstToken(y_text))
             /\ y_filename = TokenYear(y_text, FirstToken(y_text))


\* C27: with a target year set, exact-year matches come before nearby-year
\* matches: no chunk of an adjacent year is returned ahead of a chunk of the
\* target year, and none is returned while a searched chunk of the target
\* year is left out.
C27_ExactYearBeforeAdjacent ==
    (rpc = "done" /\ rtarget # None) =>
        /\ \A i, j \in 1..Len(rret) :
               (i < j /\ rret[j].year = rtarget) => rret[i].year = rtarget
        /\ \A p \in SearchedWithMeta :
               (/\ rmeta[Str(rI[p])].year = rtarget
                /\ \A i \in 1..Len(rret) : rret[i] # rmeta[Str(rI[p])])
               => \A i \in 1..Len(rret) : rret[i].year = rtarget


\* C28: for chunk_size >= 1 and 0 <= overlap < chunk_size the window start
\* strictly advances on every iteration of chunk_text's loop, and the loop
\* ends: chunk_text returns, with a finite list of at most one chunk per
\* character, for the whole text and for every oversize chunk that
\* chunk_by_sections hands to it.
C28_WindowingTerminates ==
    /\ [][wstart' # wstart => wstart' > wstart]_vars
    /\ [](Len(wchunks) <= Len(wtext))
    /\ <>(wpc = "done" /\ wchunks = chunk_text(wtext, csize, coverlap))

\* A finished call of chunk_text by the oversize pass of chunk_by_sections
\* whose loop ran several overlapping windows.
C28_Witness ==
    /\ wpc = "done"
    /\ wtext # ctext
    /\ coverlap > 0
    /\ Len(wchunks) >= 3


\* C29: every chunk chunk_by_sections returns for a non-empty text holds at
\* least one character that is not whitespace.
C29_NoEmptyChunk ==
    (cpc = "done" /\ ctext # <<>>) =>
        \A i \in 1..Len(cresult) :
            \E j \in 1..Len(cresult[i]) : cresult[i][j] \notin {" ", "\n"}


\* C30: a year-filtered retrieval with a target year in 2000..2099 (what
\* extract_year_from_query can return) never returns a chunk of year 0
\* (unknown), whatever its similarity rank.
C30_UnknownYearNeverReturned ==
    (rpc = "done" /\ rtarget \in 2000..2099) =>
        \A i \in 1..Len(rret) : rret[i].year # 0

\* A finished year-filtered retrieval whose nearest neighbour is a chunk of
\* year 0 and which returned a chunk ranked behind it.
C30_Witness ==
    /\ rpc = "done"
    /\ rtarget \in 2000..2099
    /\ Str(rI[1]) \in DOMAIN rmeta
    /\ rmeta[Str(rI[1])].year = 0
    /\ Len(rret) >= 1


(***************************************************************************)
(* Claims about generate_answer's arguments and the fallback's attempts.   *)
(***************************************************************************)
\* C31: the outcome of generate_answer does not depend on retrieved_chunks:
\* two runs with the same question and the same service responses, given
\* different retrieved_chunks, make the same service calls (with the same
\* arguments) at every step, so the same sequence of calls, end alike, and
\* return the same final answer.
C31_RetrievedChunksIgnored ==
    (DOMAIN g_runs = 1..2 /\ g_runs[1].retrieved_chunks # g_runs[2].retrieved_chunks) =>
        /\ g_runs[1].question = g_runs[2].question
        /\ g_runs[1].last_calls = g_runs[2].last_calls
        /\ g_runs[1].pc = g_runs[2].pc
        /\ g_runs[1].final_answer = g_runs[2].final_answer

\* Both runs returned an answer after an alternative phrasing, gap analysis
\* over the main result's chunks and a follow-up question.
C31_Witness ==
    /\ DOMAIN g_runs = 1..2
    /\ g_runs[1].retrieved_chunks = << >>
    /\ g_runs[2].retrieved_chunks # << >>
    /\ g_runs[1].pc = "done"
    /\ g_runs[2].pc = "done"
    /\ g_runs[1].main_result.chunks # << >>
    /\ g_runs[1].follow_up_results # << >>
    /\ g_runs[2].main_result.question # g_runs[2].question


\* C32: the fallback never nests.  In one call of
\* answer_sub_question_with_fallback there is at most one
\* alternative-generation call, the first attempt answers the sub-question
\* and every later attempt answers one alternative, each once and in order,
\* so there are at most 1 + (number of alternatives) attempts.
C32_FallbackNeverNests ==
    fpc # "none" =>
        /\ altgen_calls <= 1
        /\ Len(f_attempts) <= 1 + Len(alternatives)
        /\ Len(f_attempts) > 1 => altgen_calls = 1
        /\ \A i \in 1..Len(f_attempts) :
               f_attempts[i].question =
                   IF i = 1 THEN sub_question ELSE alternatives[i - 1]

\* A call that returns the original result after every alternative, of more
\* than one, was tried and failed.
C32_Witness ==
    /\ fpc = "ret"
    /\ altgen_calls = 1
    /\ Len(alternatives) >= 2
    /\ Len(f_attempts) = 1 + Len(alternatives)
    /\ f_ret = f_result

=============================================================================
